---- MODULE Spec2Model ----
(***************************************************************************)
(* Model of the huddle-ai meeting pipeline (src/src/agent.py) and of the   *)
(* assistant query router (src/src/assistant/chain.py).                    *)
(*                                                                         *)
(* The language model, the vector stores and the e-mail tool are external: *)
(* every call to them is a nondeterministic choice among the replies they  *)
(* can give, a raised exception included.                                  *)
(***************************************************************************)
EXTENDS Integers, Sequences, FiniteSets, TLC

VARIABLES
    state,      \* the MeetingState dict threaded through the graph
    pc,         \* graph node to run next, "END", or "RAISED"
    mode,       \* "invoke" (process_transcript) or "stream" (process_transcript_stream)
    trace,      \* <<node name, state update>> of every node run so far
    calls,      \* log of the external calls made so far
    final_state, \* ui: the dict run_with_progress accumulates from the stream
    earlier,    \* pipeline: the run of process_transcript that ended before this one
    question,   \* router: the question asked
    history,    \* router: the conversation history passed in
    stub,       \* router: the replies of the deterministic Gateway/Retriever stub
    askOut,     \* router: outcome of ask
    streamOut,  \* router: outcome of ask_stream
    rcalls,     \* router: log of the external calls made so far
    gen,        \* router: the token generator returned by ask_stream
    emitted,    \* router: fragments the caller received from the generator
    stores,     \* rag: the module globals _team_store and _meetings_store
    onDisk,     \* rag: whether each store's index.faiss exists
    assignLog,  \* rag: every object assigned to each global, in order
    objects,    \* rag: number of FAISS objects created so far
    threads,    \* rag: each thread's position inside get_*_vector_store
    meetingDate, \* deadlines: the meeting date given to the Gateway
    phrase,     \* deadlines: the raw deadline of the action item
    dstate,     \* deadlines: the MeetingState determine_deadlines works on
    dreply,     \* deadlines: what the Gateway returned
    dpc,        \* deadlines: "call" before determine_deadlines, "done" after
    dcalls,     \* deadlines: log of the external calls determine_deadlines made
    lines,      \* anchor: the lines of the transcript given to _extract_meeting_date
    today,      \* anchor: what date.today() returns
    anchor,     \* anchor: the string _extract_meeting_date returned
    apc,        \* anchor: "call" before _extract_meeting_date, "done" after
    chat,       \* assistant UI: the locals of run_assistant and _stream_answer
    demo        \* demo script: the locals of main in generate_demo_traces.py

pvars == <<state, pc, mode, trace, calls, final_state, earlier>>
rvars == <<question, history, stub, askOut, streamOut, rcalls, gen, emitted>>
svars == <<stores, onDisk, assignLog, objects, threads>>
dvars == <<meetingDate, phrase, dstate, dreply, dpc, dcalls>>
avars == <<lines, today, anchor, apc>>
cvars == <<chat>>
gvars == <<demo>>
vars == <<state, pc, mode, trace, calls, final_state, earlier,
          question, history, stub, askOut, streamOut, rcalls, gen, emitted,
          stores, onDisk, assignLog, objects, threads,
          meetingDate, phrase, dstate, dreply, dpc, dcalls,
          lines, today, anchor, apc, chat, demo>>

(***************************************************************************)
(* Bounds                                                                  *)
(***************************************************************************)
MaxItems == 2
MaxEntries == 2
MaxGets == 2
MaxLines == 3
MaxReads == 3
MaxFiles == 2
MaxComparedItems == 1

(***************************************************************************)
(* Python values                                                           *)
(***************************************************************************)
None == "<None>"

\* The outcome of an external call: a value, or a raised exception.
Ok(v) == [ok |-> TRUE, value |-> v, error |-> ""]
Raise(e) == [ok |-> FALSE, value |-> None, error |-> e]

NoReply == [ok |-> FALSE, value |-> None, error |-> "<not called>"]

\* Truth value of an Optional[str], and of a list.
Truthy(v) == v # None /\ v # ""
NonEmpty(l) == Len(l) > 0

\* str.isspace() of one character. Characters are those of U+0000..U+00FF:
\* the whitespace among them is tab, line feed, vertical tab, form feed,
\* carriage return, U+001C..U+001F, space, U+0085 and U+00A0.
IsWhitespace(c) ==
    c \in {"\t", "\n", "", "\f", "\r", "", "", "", "", " ", "", " "}

RECURSIVE LStrip(_)
LStrip(s) ==
    IF s # <<>> /\ IsWhitespace(Head(s)) THEN LStrip(Tail(s)) ELSE s

RECURSIVE RStrip(_)
RStrip(s) ==
    IF s # <<>> /\ IsWhitespace(s[Len(s)])
    THEN RStrip(SubSeq(s, 1, Len(s) - 1))
    ELSE s

Strip(s) == RStrip(LStrip(s))

Rep(c, n) == [i \in 1..n |-> c]

(***************************************************************************)
(* Inputs: transcripts and sources handed to the entry points              *)
(***************************************************************************)
MIN_TRANSCRIPT_LEN == 20

Transcripts ==
    { <<>>,
      <<" ", "\t", "\n">>,
      <<"\n", " ">> \o Rep("a", 19) \o <<"\t", "\r">>,
      Rep(" ", 1) \o Rep("a", 9) \o Rep(" ", 1) \o Rep("a", 10) }

\* The entry point called and the source passed to it: main.py calls
\* process_transcript(transcript, source="sample"), the terminal UI consumes
\* process_transcript_stream for a pasted transcript.
EntryCalls ==
    { [mode |-> "invoke", source |-> "sample"],
      [mode |-> "stream", source |-> "pasted"] }

(***************************************************************************)
(* Replies of the Gateway, the Retriever and the Dispatcher                *)
(***************************************************************************)
ClientReplies == {Ok("ChatOpenAI"), Raise("api_key must be set")}

GatewayError == Raise("gateway down")
RetrieverError == Raise("store unavailable")

SummaryReplies ==
    LET Summaries ==
            { [summary |-> "Team agreed on launch.",
               key_topics |-> <<"launch">>,
               participants |-> <<"Ann", "Bob">>] }
    IN  {Ok(m) : m \in Summaries} \cup {GatewayError}

\* The arguments of the function call the Gateway returns for one action
\* item: description is required, any other field may be missing, and
\* priority is any string.
RawItems ==
    { [description |-> "Write tests"],
      [description |-> "Fix login", assignee |-> "Bob", assignee_email |-> "bob@x.com",
       priority |-> "HIGH", deadline |-> "by Friday", context |-> "blocking"],
      [description |-> "Ship docs", assignee |-> "Ann", assignee_email |-> "",
       priority |-> "URGENT", deadline |-> "2025-02-12"] }

ActionItemDefaults ==
    [assignee |-> None, assignee_email |-> None, priority |-> "MEDIUM",
     deadline |-> None, context |-> None]

\* ActionItem(**raw).model_dump(): the six fields, defaults filled in.
ActionItem(raw) ==
    [f \in {"description"} \cup DOMAIN ActionItemDefaults |->
        IF f \in DOMAIN raw THEN raw[f] ELSE ActionItemDefaults[f]]

Items == {ActionItem(raw) : raw \in RawItems}

SeqsUpTo(S, n) == UNION { [1..k -> S] : k \in 0..n }

ExtractReplies == {Ok(l) : l \in SeqsUpTo(Items, MaxItems)} \cup {GatewayError}

TeamDocs ==
    << [page_content |-> "Name: Ann Lee",
        metadata |-> [name |-> "Ann Lee", role |-> "QA Lead", email |-> "ann@x.com"]] >>

LookupReplies == {Ok(TeamDocs), RetrieverError}

\* Indexes the Gateway may name: in range, negative, and past the end.
DeadlineEntries ==
    [index : {-1, 1, 5}, deadline : {"2025-06-06"}]

\* A result names no index twice. EntryOrder is the order in which a result
\* lists the indexes it names: the stray ones first, so that an in-range
\* entry always has a dropped entry before it.
DeadlineReplies ==
    LET EntryOrder == <<5, -1, 1>>
        EntryRank(idx) == CHOOSE k \in 1..Len(EntryOrder) : EntryOrder[k] = idx
    IN
    {Ok(l) : l \in {e \in SeqsUpTo(DeadlineEntries, MaxEntries) :
                        \A i \in 1..(Len(e) - 1) :
                           EntryRank(e[i].index) < EntryRank(e[i + 1].index)}}
        \cup {GatewayError}

MatchReplies ==
    LET Matches ==
            { [name |-> "Ann Lee", email |-> "ann@x.com", reasoning |-> "QA lead"] }
    IN  {Ok(m) : m \in Matches} \cup {GatewayError}

\* What the two calls made for one action item in assign_owners return; the
\* Gateway is not called when the lookup raised.
ItemOutcomes ==
    {[docs |-> d, match |-> m] : d \in {Ok(TeamDocs)}, m \in MatchReplies}
        \cup {[docs |-> RetrieverError, match |-> NoReply]}

SendStatuses == {"sent", "failed"}

(***************************************************************************)
(* LangGraph state: channels, reducer and initial state                    *)
(***************************************************************************)
\* Variant: every channel, errors included, is overwritten by the update.
MergeOverwrite(s, u) ==
    [f \in DOMAIN s |-> IF f \in DOMAIN u THEN u[f] ELSE s[f]]

Merge(s, u) ==
    [f \in DOMAIN s |->
        IF f \in DOMAIN u
        THEN IF f = "errors" THEN s[f] \o u[f] ELSE u[f]
        ELSE s[f]]

InitialState(transcript, source) ==
    [transcript |-> transcript,
     transcript_source |-> source,
     summary |-> "",
     key_topics |-> <<>>,
     participants |-> <<>>,
     action_items |-> <<>>,
     emails_sent |-> <<>>,
     errors |-> <<>>,
     processing_step |-> ""]

\* One external call: who was called, by which node, for which action item
\* (0 when the call is not per item), with what argument, and the outcome.
Call(kind, stage, item, arg, reply) ==
    [kind |-> kind, stage |-> stage, item |-> item, arg |-> arg, reply |-> reply]

(***************************************************************************)
(* Graph nodes (src/src/agent.py)                                          *)
(***************************************************************************)
\* Variant: the node stores the trimmed transcript back into the state.
IntakeNodeTrimming(s) ==
    IF ~NonEmpty(s.transcript) \/ Len(Strip(s.transcript)) < MIN_TRANSCRIPT_LEN
    THEN [errors |-> <<"Transcript is empty or too short (minimum 20 characters).">>,
          processing_step |-> "intake"]
    ELSE [transcript |-> Strip(s.transcript), processing_step |-> "intake"]

\* Variant: the length is measured without removing surrounding whitespace.
IntakeNodeNoStrip(s) ==
    IF ~NonEmpty(s.transcript) \/ Len(s.transcript) < MIN_TRANSCRIPT_LEN
    THEN [errors |-> <<"Transcript is empty or too short (minimum 20 characters).">>,
          processing_step |-> "intake"]
    ELSE [processing_step |-> "intake"]

IntakeNode(s) ==
    IF ~NonEmpty(s.transcript) \/ Len(Strip(s.transcript)) < MIN_TRANSCRIPT_LEN
    THEN [errors |-> <<"Transcript is empty or too short (minimum 20 characters).">>,
          processing_step |-> "intake"]
    ELSE [processing_step |-> "intake"]

\* The exception caught by a node whose client construction and Gateway call
\* sit in one try block.
Caught(llm, reply) == IF llm.ok THEN reply.error ELSE llm.error

\* Variant: the except branch does not report the node's name.
SummarizeNodeStepOnSuccess(s, llm, reply) ==
    IF llm.ok /\ reply.ok
    THEN [summary |-> reply.value.summary,
          key_topics |-> reply.value.key_topics,
          participants |-> reply.value.participants,
          processing_step |-> "summarize"]
    ELSE [summary |-> "Error generating summary.",
          key_topics |-> <<>>,
          participants |-> <<>>,
          errors |-> <<"Summarize error: " \o Caught(llm, reply)>>]

\* Variant: the except branch reports the failure without the fallback summary.
SummarizeNodeNoFallback(s, llm, reply) ==
    IF llm.ok /\ reply.ok
    THEN [summary |-> reply.value.summary,
          key_topics |-> reply.value.key_topics,
          participants |-> reply.value.participants,
          processing_step |-> "summarize"]
    ELSE [errors |-> <<"Summarize error: " \o Caught(llm, reply)>>,
          processing_step |-> "summarize"]

SummarizeNode(s, llm, reply) ==
    IF llm.ok /\ reply.ok
    THEN [summary |-> reply.value.summary,
          key_topics |-> reply.value.key_topics,
          participants |-> reply.value.participants,
          processing_step |-> "summarize"]
    ELSE [summary |-> "Error generating summary.",
          key_topics |-> <<>>,
          participants |-> <<>>,
          errors |-> <<"Summarize error: " \o Caught(llm, reply)>>,
          processing_step |-> "summarize"]

DigitStr == <<"0", "1", "2", "3", "4", "5", "6", "7", "8", "9">>

RECURSIVE Decimal(_)
Decimal(n) ==
    IF n < 10 THEN DigitStr[n + 1]
    ELSE Decimal(n \div 10) \o DigitStr[(n % 10) + 1]

RECURSIVE ZeroPad(_, _)
ZeroPad(str, width) ==
    IF Len(str) < width THEN ZeroPad("0" \o str, width) ELSE str

\* Variant: f"ai-{n}", no padding.
FormatIdUnpadded(n) == "ai-" \o Decimal(n)

\* f"ai-{n:03d}"
FormatId(n) == "ai-" \o ZeroPad(Decimal(n), 3)

\* d[k] = v on a dict
SetItem(d, k, v) ==
    [x \in DOMAIN d \cup {k} |-> IF x = k THEN v ELSE d[x]]

\* d.setdefault(k, v) on a dict
SetDefault(d, k, v) ==
    IF k \in DOMAIN d THEN d ELSE SetItem(d, k, v)

\* Variant: the except branch returns the empty list without the diagnostic.
ExtractNodeSilent(s, llm, reply) ==
    IF llm.ok /\ reply.ok
    THEN [action_items |->
              [p \in 1..Len(reply.value) |->
                  SetItem(reply.value[p], "id", FormatId((p - 1) + 1))],
          processing_step |-> "extract_action_items"]
    ELSE [action_items |-> <<>>,
          processing_step |-> "extract_action_items"]

\* enumerate() counts from 0; position p of a sequence is Python index p - 1.
ExtractNode(s, llm, reply) ==
    IF llm.ok /\ reply.ok
    THEN [action_items |->
              [p \in 1..Len(reply.value) |->
                  SetItem(reply.value[p], "id", FormatId((p - 1) + 1))],
          processing_step |-> "extract_action_items"]
    ELSE [action_items |-> <<>>,
          errors |-> <<"Extract action items error: " \o Caught(llm, reply)>>,
          processing_step |-> "extract_action_items"]

OrElse(v, default) == IF Truthy(v) THEN v ELSE default

\* Variant: the except branch also clears the address.
AssignOneClearingEmail(item, outcome) ==
    IF outcome.docs.ok /\ outcome.match.ok
    THEN SetItem(SetItem(item, "assignee", outcome.match.value.name),
                 "assignee_email", outcome.match.value.email)
    ELSE SetItem(SetDefault(item, "assignee", "Unassigned"), "assignee_email", None)

\* The body of the loop of assign_owners for one item.
AssignOne(item, outcome) ==
    IF outcome.docs.ok /\ outcome.match.ok
    THEN SetItem(SetItem(item, "assignee", outcome.match.value.name),
                 "assignee_email", outcome.match.value.email)
    ELSE SetDefault(item, "assignee", "Unassigned")

RagQuery(item) ==
    OrElse(item.assignee, "not specified") \o " " \o item.description
        \o " " \o OrElse(item.context, "")

\* Variant: the except branch of the loop records a diagnostic for the item.
AssignOwnersNodeReporting(s, outcomes) ==
    [action_items |->
         [p \in 1..Len(s.action_items) |-> AssignOne(s.action_items[p], outcomes[p])],
     errors |->
         [k \in 1..Cardinality({p \in 1..Len(s.action_items) :
                                  ~(outcomes[p].docs.ok /\ outcomes[p].match.ok)}) |->
              "Assign owner error"],
     processing_step |-> "assign_owners"]

\* Variant: the loop stops at the first item whose lookup fails.
AssignOwnersNodeStopAtFailure(s, outcomes) ==
    [action_items |->
         [p \in 1..Len(s.action_items) |->
              IF \E q \in 1..(p - 1) : ~(outcomes[q].docs.ok /\ outcomes[q].match.ok)
              THEN s.action_items[p]
              ELSE AssignOne(s.action_items[p], outcomes[p])],
     processing_step |-> "assign_owners"]

AssignOwnersNode(s, outcomes) ==
    [action_items |->
         [p \in 1..Len(s.action_items) |-> AssignOne(s.action_items[p], outcomes[p])],
     processing_step |-> "assign_owners"]

RECURSIVE AssignCalls(_, _, _)
AssignCalls(items, outcomes, p) ==
    IF p > Len(items) THEN <<>>
    ELSE <<Call("retriever", "assign_owners", p, RagQuery(items[p]), outcomes[p].docs)>>
         \o (IF outcomes[p].docs.ok
             THEN <<Call("gateway", "assign_owners", p, None, outcomes[p].match)>>
             ELSE <<>>)
         \o AssignCalls(items, outcomes, p + 1)

\* Variant: only the upper bound is tested.
InRangeUpperOnly(idx, n) == idx < n

\* The test guarding updated_items[idx] = ...
InRange(idx, n) == 0 <= idx /\ idx < n

\* Variant: the index is taken as a position counted from 1.
PyPosOneBased(idx, n) == IF idx < 0 THEN n + idx + 1 ELSE idx

\* Position in a sequence of Python list index idx (negative counts from the end).
PyPos(idx, n) == IF idx < 0 THEN n + idx + 1 ELSE idx + 1

\* Variant: the loop is left after the first entry.
ApplyDeadlinesFirstOnly(items, entries) ==
    IF entries = <<>> THEN items
    ELSE IF InRange(Head(entries).index, Len(items))
    THEN [items EXCEPT ![PyPos(Head(entries).index, Len(items))] =
              SetItem(@, "deadline", Head(entries).deadline)]
    ELSE items

RECURSIVE ApplyDeadlines(_, _)
ApplyDeadlines(items, entries) ==
    IF entries = <<>> THEN items
    ELSE LET entry == Head(entries)
             idx == entry.index
             next == IF InRange(idx, Len(items))
                     THEN [items EXCEPT ![PyPos(idx, Len(items))] =
                               SetItem(@, "deadline", entry.deadline)]
                     ELSE items
         IN  ApplyDeadlines(next, Tail(entries))

\* Variant: the except branch also returns the items, their deadlines reset.
DetermineDeadlinesNodeClearing(s, llm, reply) ==
    IF ~NonEmpty(s.action_items)
    THEN [processing_step |-> "determine_deadlines"]
    ELSE IF llm.ok /\ reply.ok
    THEN [action_items |-> ApplyDeadlines(s.action_items, reply.value),
          processing_step |-> "determine_deadlines"]
    ELSE [action_items |->
              [p \in 1..Len(s.action_items) |->
                  SetItem(s.action_items[p], "deadline", None)],
          errors |-> <<"Deadline resolution error: " \o Caught(llm, reply)>>,
          processing_step |-> "determine_deadlines"]

\* Variant: the returned list holds only the items the result names.
DetermineDeadlinesNodeNamedOnly(s, llm, reply) ==
    IF ~NonEmpty(s.action_items)
    THEN [processing_step |-> "determine_deadlines"]
    ELSE IF llm.ok /\ reply.ok
    THEN [action_items |->
              SelectSeq(ApplyDeadlines(s.action_items, reply.value),
                        LAMBDA item : \E k \in 1..Len(reply.value) :
                                         /\ reply.value[k].index >= 0
                                         /\ FormatId(reply.value[k].index + 1) = item.id),
          processing_step |-> "determine_deadlines"]
    ELSE [errors |-> <<"Deadline resolution error: " \o Caught(llm, reply)>>,
          processing_step |-> "determine_deadlines"]

DetermineDeadlinesNode(s, llm, reply) ==
    IF ~NonEmpty(s.action_items)
    THEN [processing_step |-> "determine_deadlines"]
    ELSE IF llm.ok /\ reply.ok
    THEN [action_items |-> ApplyDeadlines(s.action_items, reply.value),
          processing_step |-> "determine_deadlines"]
    ELSE [errors |-> <<"Deadline resolution error: " \o Caught(llm, reply)>>,
          processing_step |-> "determine_deadlines"]

\* Variant: only a None address is skipped.
WithEmailNotNone(items) == {p \in 1..Len(items) : items[p].assignee_email # None}

\* Positions of the items send_emails does not skip.
WithEmail(items) == {p \in 1..Len(items) : Truthy(items[p].assignee_email)}

\* Variant: an address already in the list is not added again.
RECURSIVE SentListMerged(_, _, _)
SentListMerged(items, statuses, p) ==
    IF p > Len(items) THEN <<>>
    ELSE (IF /\ p \in WithEmail(items) /\ statuses[p] = "sent"
             /\ ~\E q \in WithEmail(items) :
                    /\ q < p /\ statuses[q] = "sent"
                    /\ items[q].assignee_email = items[p].assignee_email
          THEN <<items[p].assignee_email>> ELSE <<>>)
         \o SentListMerged(items, statuses, p + 1)

RECURSIVE SentList(_, _, _)
SentList(items, statuses, p) ==
    IF p > Len(items) THEN <<>>
    ELSE (IF p \in WithEmail(items) /\ statuses[p] = "sent"
          THEN <<items[p].assignee_email>> ELSE <<>>)
         \o SentList(items, statuses, p + 1)

RECURSIVE SendCalls(_, _, _)
SendCalls(items, statuses, p) ==
    IF p > Len(items) THEN <<>>
    ELSE (IF p \in WithEmail(items)
          THEN <<Call("dispatcher", "send_emails", p, items[p].assignee_email,
                      Ok(statuses[p]))>>
          ELSE <<>>)
         \o SendCalls(items, statuses, p + 1)

\* Variant: the node does not report its name in processing_step.
SendEmailsNodeNoStep(s, statuses) ==
    [emails_sent |-> SentList(s.action_items, statuses, 1)]

SendEmailsNode(s, statuses) ==
    [emails_sent |-> SentList(s.action_items, statuses, 1),
     processing_step |-> "send_emails"]

(***************************************************************************)
(* Routing and graph edges                                                 *)
(***************************************************************************)
\* Variant: the sub-chain is entered whatever was extracted.
ShouldContinueAlways(s) == "assign_owners"

ShouldContinue(s) ==
    IF NonEmpty(s.action_items) THEN "assign_owners" ELSE "END"

\* Variant: determine_deadlines is wired to END.
NextNodeSkipSend(node, s) ==
    CASE node = "intake" -> "summarize"
      [] node = "summarize" -> "extract_action_items"
      [] node = "extract_action_items" -> ShouldContinue(s)
      [] node = "assign_owners" -> "determine_deadlines"
      [] node = "determine_deadlines" -> "END"
      [] node = "send_emails" -> "END"

NextNode(node, s) ==
    CASE node = "intake" -> "summarize"
      [] node = "summarize" -> "extract_action_items"
      [] node = "extract_action_items" -> ShouldContinue(s)
      [] node = "assign_owners" -> "determine_deadlines"
      [] node = "determine_deadlines" -> "send_emails"
      [] node = "send_emails" -> "END"

PROCESSING_STEPS ==
    <<"intake", "summarize", "extract_action_items",
      "assign_owners", "determine_deadlines", "send_emails">>

(***************************************************************************)
(* One superstep of the compiled graph: run the node, merge its update     *)
(* into the state, report the update, follow the edge.                     *)
(***************************************************************************)
\* The loop body of run_with_progress (src/src/ui/processing.py), which
\* consumes process_transcript_stream: every key of the update is stored into
\* final_state, whatever the value's type. final_state starts as {}.
UiMerge(fs, update) ==
    [k \in DOMAIN fs \cup DOMAIN update |->
        IF k \in DOMAIN update THEN update[k] ELSE fs[k]]

\* Variant: the stream reports the whole state after the node
\* (stream_mode="values") instead of the node's update.
StepYieldingValues(node, update, made) ==
    /\ state' = Merge(state, update)
    /\ trace' = Append(trace, <<node, Merge(state, update)>>)
    /\ calls' = calls \o made
    /\ pc' = NextNode(node, Merge(state, update))
    /\ final_state' = IF mode = "stream" THEN UiMerge(final_state, Merge(state, update))
                     ELSE final_state
    /\ UNCHANGED <<mode, earlier>>

Step(node, update, made) ==
    /\ state' = Merge(state, update)
    /\ trace' = Append(trace, <<node, update>>)
    /\ calls' = calls \o made
    /\ pc' = NextNode(node, Merge(state, update))
    /\ final_state' = IF mode = "stream" THEN UiMerge(final_state, update)
                     ELSE final_state
    /\ UNCHANGED <<mode, earlier>>

\* An exception leaves the node and so graph.invoke / graph.stream.
Propagate(made) ==
    /\ pc' = "RAISED"
    /\ calls' = calls \o made
    /\ UNCHANGED <<state, trace, mode, final_state, earlier>>

\* llm = _get_llm(); chain.invoke(...) inside one try block
GatewayCalls(stage, llm, reply) ==
    <<Call("client", stage, 0, None, llm)>>
        \o (IF llm.ok THEN <<Call("gateway", stage, 0, None, reply)>> ELSE <<>>)

Intake ==
    /\ pc = "intake"
    /\ Step("intake", IntakeNode(state), <<>>)
    /\ UNCHANGED <<rvars, svars, dvars, avars, cvars, gvars>>

Summarize ==
    /\ pc = "summarize"
    /\ \E llm \in ClientReplies :
       \E reply \in (IF llm.ok THEN SummaryReplies ELSE {NoReply}) :
          Step("summarize", SummarizeNode(state, llm, reply),
               GatewayCalls("summarize", llm, reply))
    /\ UNCHANGED <<rvars, svars, dvars, avars, cvars, gvars>>

ExtractActionItems ==
    /\ pc = "extract_action_items"
    /\ \E llm \in ClientReplies :
       \E reply \in (IF llm.ok THEN ExtractReplies ELSE {NoReply}) :
          Step("extract_action_items", ExtractNode(state, llm, reply),
               GatewayCalls("extract_action_items", llm, reply))
    /\ UNCHANGED <<rvars, svars, dvars, avars, cvars, gvars>>

AssignOwners ==
    /\ pc = "assign_owners"
    /\ \E llm \in ClientReplies :
          IF llm.ok
          THEN \E outcomes \in [1..Len(state.action_items) -> ItemOutcomes] :
                  Step("assign_owners", AssignOwnersNode(state, outcomes),
                       <<Call("client", "assign_owners", 0, None, llm)>>
                           \o AssignCalls(state.action_items, outcomes, 1))
          ELSE Propagate(<<Call("client", "assign_owners", 0, None, llm)>>)
    /\ UNCHANGED <<rvars, svars, dvars, avars, cvars, gvars>>

DetermineDeadlines ==
    /\ pc = "determine_deadlines"
    /\ IF ~NonEmpty(state.action_items)
       THEN Step("determine_deadlines",
                 DetermineDeadlinesNode(state, NoReply, NoReply), <<>>)
       ELSE \E llm \in ClientReplies :
            \E reply \in (IF llm.ok THEN DeadlineReplies ELSE {NoReply}) :
               Step("determine_deadlines", DetermineDeadlinesNode(state, llm, reply),
                    GatewayCalls("determine_deadlines", llm, reply))
    /\ UNCHANGED <<rvars, svars, dvars, avars, cvars, gvars>>

SendEmails ==
    /\ pc = "send_emails"
    /\ \E statuses \in [WithEmail(state.action_items) -> SendStatuses] :
          Step("send_emails", SendEmailsNode(state, statuses),
               SendCalls(state.action_items, statuses, 1))
    /\ UNCHANGED <<rvars, svars, dvars, avars, cvars, gvars>>

(***************************************************************************)
(* Query router (src/src/assistant/chain.py)                               *)
(***************************************************************************)
Questions == {"Who is the QA lead?", "What did we decide about the launch date?"}

\* history: None, or a list of messages
NoHistory == [none |-> TRUE, messages |-> <<>>]
SomeHistory(l) == [none |-> FALSE, messages |-> l]

Histories ==
    { NoHistory,
      SomeHistory(<<[role |-> "human", content |-> "Hi"],
                    [role |-> "ai", content |-> "Hello"]>>) }

\* history or []
HistoryOrEmpty(h) == IF h.none \/ ~NonEmpty(h.messages) THEN <<>> ELSE h.messages

Categories == {"team", "meeting", "general", "Team", "", "people"}

\* The free text that comes with the category.
Reasonings == {"because", "not sure"}

ClassifyReplies ==
    {Ok([category |-> c, reasoning |-> r]) : c \in Categories, r \in Reasonings}
        \cup {GatewayError}

TeamHits ==
    << [page_content |-> "Name: Ann Lee",
        metadata |-> [name |-> "Ann Lee", role |-> "QA Lead", email |-> "ann@x.com"]],
       [page_content |-> "Name: Bob Roy",
        metadata |-> [email |-> "bob@x.com"]] >>

MeetingHits ==
    << [page_content |-> "Ann: launch moves to June.",
        metadata |-> [meeting |-> "Sprint Planning", date |-> "June 2, 2025"]],
       [page_content |-> "Bob: agreed.",
        metadata |-> [source |-> "retro.txt"]] >>

TeamSearchReplies == {Ok(TeamHits), Ok(<<>>), RetrieverError}
MeetingSearchReplies == {Ok(MeetingHits), RetrieverError}

\* What the model answers: the chunks it generates, then an exception if
\* error is not empty. chain.invoke returns the chunks' concatenation or raises.
AnswerReplies ==
    { [chunks |-> <<"Ann ", "", "leads QA.">>, error |-> ""],
      [chunks |-> <<"Ann ">>, error |-> "gateway down"],
      [chunks |-> <<>>, error |-> "gateway down"] }

\* A deterministic stub: what each external call returns for this question
\* and history, every time it is made.
Stubs ==
    [client : ClientReplies,
     classify : ClassifyReplies,
     team : TeamSearchReplies,
     meeting : MeetingSearchReplies,
     answer : AnswerReplies]

\* dict.get(key, default)
Get(d, k, default) == IF k \in DOMAIN d THEN d[k] ELSE default

RECURSIVE Join(_, _)
Join(sep, parts) ==
    IF parts = <<>> THEN ""
    ELSE IF Len(parts) = 1 THEN parts[1]
    ELSE parts[1] \o sep \o Join(sep, Tail(parts))

RECURSIVE Concat(_)
Concat(parts) == IF parts = <<>> THEN "" ELSE Head(parts) \o Concat(Tail(parts))

\* classify_query: returns result.category, or raises.
\* Variant: a classification that is not sure of itself is sent to the
\* general strategy.
ClassifyQueryReasoned(q, h, st) ==
    IF ~st.client.ok
    THEN [reply |-> Raise(st.client.error),
          made |-> <<Call("client", "classify", 0, None, st.client)>>]
    ELSE [reply |-> IF st.classify.ok
                    THEN Ok(IF st.classify.value.reasoning = "not sure"
                            THEN "general" ELSE st.classify.value.category)
                    ELSE st.classify,
          made |-> <<Call("client", "classify", 0, None, st.client),
                     Call("gateway", "classify", 0,
                          [question |-> q, history |-> HistoryOrEmpty(h)],
                          st.classify)>>]

ClassifyQuery(q, h, st) ==
    IF ~st.client.ok
    THEN [reply |-> Raise(st.client.error),
          made |-> <<Call("client", "classify", 0, None, st.client)>>]
    ELSE [reply |-> IF st.classify.ok THEN Ok(st.classify.value.category)
                    ELSE st.classify,
          made |-> <<Call("client", "classify", 0, None, st.client),
                     Call("gateway", "classify", 0,
                          [question |-> q, history |-> HistoryOrEmpty(h)],
                          st.classify)>>]

TeamBlock(doc) ==
    "[" \o Get(doc.metadata, "name", "Unknown") \o " - "
        \o Get(doc.metadata, "role", "") \o "]\n" \o doc.page_content

MeetingBlock(doc) ==
    "[" \o Get(doc.metadata, "meeting", "Unknown Meeting") \o " - "
        \o Get(doc.metadata, "date", "") \o "]\n" \o doc.page_content

SEARCH_K == 3

SearchArg(q) == [query |-> q, k |-> SEARCH_K]

\* Variant: the team corpus is searched a second time for the same question.
BuildTeamChainInputsTwice(q, h, st) ==
    [reply |-> IF st.team.ok
               THEN Ok([inputs |->
                            [question |-> q,
                             context |-> Join("\n\n",
                                 [i \in 1..Len(st.team.value) |->
                                     TeamBlock(st.team.value[i])]),
                             history |-> HistoryOrEmpty(h)],
                        source |-> "Team Directory"])
               ELSE st.team,
     made |-> <<Call("retriever", "team", 0, SearchArg(q), st.team),
                Call("retriever", "team", 0, SearchArg(q), st.team)>>]

\* A builder returns (inputs, source label), or raises what the search raised.
BuildTeamChainInputs(q, h, st) ==
    [reply |-> IF st.team.ok
               THEN Ok([inputs |->
                            [question |-> q,
                             context |-> Join("\n\n",
                                 [i \in 1..Len(st.team.value) |->
                                     TeamBlock(st.team.value[i])]),
                             history |-> HistoryOrEmpty(h)],
                        source |-> "Team Directory"])
               ELSE st.team,
     made |-> <<Call("retriever", "team", 0, SearchArg(q), st.team)>>]

BuildMeetingChainInputs(q, h, st) ==
    [reply |-> IF st.meeting.ok
               THEN Ok([inputs |->
                            [question |-> q,
                             context |-> Join("\n\n",
                                 [i \in 1..Len(st.meeting.value) |->
                                     MeetingBlock(st.meeting.value[i])]),
                             history |-> HistoryOrEmpty(h)],
                        source |-> "Meeting History"])
               ELSE st.meeting,
     made |-> <<Call("retriever", "meeting", 0, SearchArg(q), st.meeting)>>]

BuildGeneralChainInputs(q, h, st) ==
    [reply |-> Ok([inputs |-> [question |-> q, history |-> HistoryOrEmpty(h)],
                   source |-> "General Knowledge"]),
     made |-> <<>>]

\* Variant: the meeting category is wired to the team builder.
CATEGORY_CONFIG_MeetingViaTeam ==
    [team |-> [prompt |-> "TEAM_RAG_PROMPT", builder |-> "team"],
     meeting |-> [prompt |-> "MEETING_RAG_PROMPT", builder |-> "team"],
     general |-> [prompt |-> "GENERAL_PROMPT", builder |-> "general"]]

CATEGORY_CONFIG ==
    [team |-> [prompt |-> "TEAM_RAG_PROMPT", builder |-> "team"],
     meeting |-> [prompt |-> "MEETING_RAG_PROMPT", builder |-> "meeting"],
     general |-> [prompt |-> "GENERAL_PROMPT", builder |-> "general"]]

Build(builder, q, h, st) ==
    CASE builder = "team" -> BuildTeamChainInputs(q, h, st)
      [] builder = "meeting" -> BuildMeetingChainInputs(q, h, st)
      [] builder = "general" -> BuildGeneralChainInputs(q, h, st)

\* What _resolve_category hands back, or the exception it lets through.
Resolved(prompt, built, made) ==
    [ok |-> built.ok,
     error |-> built.error,
     prompt |-> IF built.ok THEN prompt ELSE None,
     inputs |-> IF built.ok THEN built.value.inputs ELSE [question |-> None],
     source |-> IF built.ok THEN built.value.source ELSE None,
     made |-> made]

\* Variant: _CATEGORY_CONFIG[category], a KeyError on an unknown category.
ResolveCategoryStrict(q, h, st) ==
    LET c == ClassifyQuery(q, h, st)
    IN  IF ~c.reply.ok THEN Resolved(None, c.reply, c.made)
        ELSE IF c.reply.value \notin DOMAIN CATEGORY_CONFIG
        THEN Resolved(None, Raise("KeyError"), c.made)
        ELSE LET entry == CATEGORY_CONFIG[c.reply.value]
                 b == Build(entry.builder, q, h, st)
             IN  Resolved(entry.prompt, b.reply, c.made \o b.made)

ResolveCategory(q, h, st) ==
    LET c == ClassifyQuery(q, h, st)
    IN  IF ~c.reply.ok THEN Resolved(None, c.reply, c.made)
        ELSE LET entry == Get(CATEGORY_CONFIG, c.reply.value,
                              [prompt |-> "GENERAL_PROMPT", builder |-> "general"])
                 b == Build(entry.builder, q, h, st)
             IN  Resolved(entry.prompt, b.reply, c.made \o b.made)

\* Variant: the streaming entry point answers from the general chain
\* without routing.
AskStreamResolveGeneral(q, h, st) ==
    LET b == BuildGeneralChainInputs(q, h, st)
    IN  Resolved("GENERAL_PROMPT", b.reply, b.made)

\* prompt, inputs, source = _resolve_category(question, history), in ask
AskResolve(q, h, st) == ResolveCategory(q, h, st)

\* prompt, inputs, source = _resolve_category(question, history), in ask_stream
AskStreamResolve(q, h, st) == ResolveCategory(q, h, st)

\* The outcome of an entry point: whether it was called, whether it raised,
\* what it returned, and the prompt and inputs it gave to the answer chain.
NotCalled ==
    [called |-> FALSE, raised |-> FALSE, error |-> "", resolved |-> FALSE,
     prompt |-> None, inputs |-> [question |-> None], source |-> None,
     answer |-> None]

Outcome(r, raised, error, answer) ==
    [called |-> TRUE, raised |-> raised, error |-> error, resolved |-> r.ok,
     prompt |-> r.prompt, inputs |-> r.inputs,
     source |-> IF raised THEN None ELSE r.source,
     answer |-> answer]

AnswerArg(r) == [prompt |-> r.prompt, inputs |-> r.inputs]

\* ask(question, history)
Ask ==
    /\ pc = "IDLE"
    /\ ~askOut.called
    /\ LET r == AskResolve(question, history, stub)
       IN  IF ~r.ok
           THEN /\ askOut' = Outcome(r, TRUE, r.error, None)
                /\ rcalls' = rcalls \o r.made
           ELSE IF ~stub.client.ok
           THEN /\ askOut' = Outcome(r, TRUE, stub.client.error, None)
                /\ rcalls' = rcalls \o r.made
                       \o <<Call("client", "answer", 0, None, stub.client)>>
           ELSE LET reply == IF stub.answer.error = ""
                             THEN Ok(Concat(stub.answer.chunks))
                             ELSE Raise(stub.answer.error)
                IN  /\ askOut' = Outcome(r, ~reply.ok, reply.error, reply.value)
                    /\ rcalls' = rcalls \o r.made
                           \o <<Call("client", "answer", 0, None, stub.client),
                                Call("gateway", "answer", 0, AnswerArg(r), reply)>>
    /\ UNCHANGED <<question, history, stub, streamOut, gen, emitted>>
    /\ UNCHANGED <<pvars, svars, dvars, avars, cvars, gvars>>

NoGenerator == [status |-> "none", pos |-> 0, arg |-> AnswerArg(NotCalled)]

\* ask_stream(question, history): returns the label and a generator that has
\* not started; chain.stream is called when the first fragment is asked for.
AskStream ==
    /\ pc = "IDLE"
    /\ ~streamOut.called
    /\ LET r == AskStreamResolve(question, history, stub)
       IN  IF ~r.ok
           THEN /\ streamOut' = Outcome(r, TRUE, r.error, None)
                /\ rcalls' = rcalls \o r.made
                /\ gen' = gen
           ELSE IF ~stub.client.ok
           THEN /\ streamOut' = Outcome(r, TRUE, stub.client.error, None)
                /\ rcalls' = rcalls \o r.made
                       \o <<Call("client", "answer", 0, None, stub.client)>>
                /\ gen' = gen
           ELSE /\ streamOut' = Outcome(r, FALSE, "", None)
                /\ rcalls' = rcalls \o r.made
                       \o <<Call("client", "answer", 0, None, stub.client)>>
                /\ gen' = [status |-> "created", pos |-> 0, arg |-> AnswerArg(r)]
    /\ UNCHANGED <<question, history, stub, askOut, emitted>>
    /\ UNCHANGED <<pvars, svars, dvars, avars, cvars, gvars>>

\* Position of the first chunk after pos with content, or 0.
NextContent(chunks, pos) ==
    IF \E i \in (pos + 1)..Len(chunks) : chunks[i] # ""
    THEN CHOOSE i \in (pos + 1)..Len(chunks) :
            /\ chunks[i] # ""
            /\ \A j \in (pos + 1)..(i - 1) : chunks[j] = ""
    ELSE 0

\* next() on the token generator: runs it to its next yield, to its end, or
\* to the exception chain.stream raises.
NextFragment ==
    /\ pc = "IDLE"
    /\ gen.status \in {"created", "running"}
    /\ LET i == NextContent(stub.answer.chunks, gen.pos)
       IN  /\ IF i # 0
              THEN /\ gen' = [gen EXCEPT !.status = "running", !.pos = i]
                   /\ emitted' = Append(emitted, stub.answer.chunks[i])
              ELSE /\ gen' = [gen EXCEPT !.status =
                                  IF stub.answer.error = "" THEN "done" ELSE "raised",
                               !.pos = Len(stub.answer.chunks)]
                   /\ emitted' = emitted
           /\ rcalls' = IF gen.status = "created"
                        THEN Append(rcalls, Call("gateway", "answer", 0, gen.arg,
                                                 IF stub.answer.error = ""
                                                 THEN Ok(stub.answer.chunks)
                                                 ELSE Raise(stub.answer.error)))
                        ELSE rcalls
    /\ UNCHANGED <<question, history, stub, askOut, streamOut>>
    /\ UNCHANGED <<pvars, svars, dvars, avars, cvars, gvars>>

RouterIdle ==
    /\ question = ""
    /\ history = NoHistory
    /\ stub = CHOOSE st \in Stubs : TRUE
    /\ askOut = NotCalled
    /\ streamOut = NotCalled
    /\ rcalls = <<>>
    /\ gen = NoGenerator
    /\ emitted = <<>>

RouterInit ==
    /\ question \in Questions
    /\ history \in Histories
    /\ stub \in Stubs
    /\ askOut = NotCalled
    /\ streamOut = NotCalled
    /\ rcalls = <<>>
    /\ gen = NoGenerator
    /\ emitted = <<>>

\* No run of process_transcript has ended before this one.
NoRun ==
    [done |-> FALSE, raised |-> FALSE, state |-> InitialState(<<>>, "sample"),
     stages |-> <<>>, calls |-> <<>>]

PipelineIdle ==
    /\ state = InitialState(<<>>, "sample")
    /\ pc = "IDLE"
    /\ mode = "invoke"
    /\ trace = <<>>
    /\ calls = <<>>
    /\ final_state = <<>>
    /\ earlier = NoRun

PipelineInit ==
    /\ \E t \in Transcripts, entry \in EntryCalls :
          /\ state = InitialState(t, entry.source)
          /\ mode = entry.mode
    /\ pc = "intake"
    /\ trace = <<>>
    /\ calls = <<>>
    /\ final_state = <<>>
    /\ earlier = NoRun

\* process_transcript(transcript, source) has returned or raised, and
\* process_transcript_stream is called with the same transcript and source:
\* a new run of the same compiled graph from _initial_state, its updates
\* consumed one by one. What the first run did is kept for comparison.
StreamAfterInvoke ==
    /\ mode = "invoke"
    /\ pc \in {"END", "RAISED"}
    /\ ~earlier.done
    /\ earlier' = [done |-> TRUE, raised |-> pc = "RAISED", state |-> state,
                 stages |-> [i \in 1..Len(trace) |-> trace[i][1]], calls |-> calls]
    /\ state' = InitialState(state.transcript, state.transcript_source)
    /\ pc' = "intake"
    /\ mode' = "stream"
    /\ trace' = <<>>
    /\ calls' = <<>>
    /\ final_state' = <<>>
    /\ UNCHANGED <<rvars, svars, dvars, avars, cvars, gvars>>

(***************************************************************************)
(* Lazily created vector stores (src/src/rag.py)                           *)
(***************************************************************************)
Corpora == {"team", "meetings"}

\* client.evaluate(..., max_concurrency=2): two callers at a time
Threads == 1..2

\* _team_store: FAISS | None = None
NoStore == 0

IdleThread == [pc |-> "idle", corpus |-> "team", local |-> NoStore,
               got |-> NoStore, raised |-> FALSE, gets |-> 0]

\* The exception leaves get_*_vector_store.
RaiseFrom(t) ==
    [threads EXCEPT ![t].pc = "idle", ![t].raised = TRUE, ![t].got = NoStore,
                    ![t].gets = @ + 1]

\* get_team_vector_store() / get_meetings_vector_store(): the test of the
\* global and the early return.
GetVectorStore(t, c) ==
    /\ threads[t].pc = "idle"
    /\ threads[t].gets < MaxGets
    /\ IF stores[c] # NoStore
       THEN threads' = [threads EXCEPT ![t].corpus = c, ![t].got = stores[c],
                                       ![t].raised = FALSE, ![t].gets = @ + 1]
       ELSE threads' = [threads EXCEPT ![t].corpus = c, ![t].pc = "probe",
                                       ![t].raised = FALSE]
    /\ UNCHANGED <<stores, onDisk, assignLog, objects>>
    /\ UNCHANGED <<pvars, rvars, dvars, avars, cvars, gvars>>

\* Path(store_dir).exists() and (Path(store_dir) / "index.faiss").exists()
ProbeIndex(t) ==
    /\ threads[t].pc = "probe"
    /\ threads' = [threads EXCEPT ![t].pc =
                       IF onDisk[threads[t].corpus] THEN "load" ELSE "build"]
    /\ UNCHANGED <<stores, onDisk, assignLog, objects>>
    /\ UNCHANGED <<pvars, rvars, dvars, avars, cvars, gvars>>

\* initialize_*_store(): read the documents and FAISS.from_documents(...)
BuildStore(t) ==
    /\ threads[t].pc = "build"
    /\ \E ok \in BOOLEAN :
          IF ok
          THEN /\ objects' = objects + 1
               /\ threads' = [threads EXCEPT ![t].pc = "save",
                                             ![t].local = objects + 1]
          ELSE /\ objects' = objects
               /\ threads' = RaiseFrom(t)
    /\ UNCHANGED <<stores, onDisk, assignLog>>
    /\ UNCHANGED <<pvars, rvars, dvars, avars, cvars, gvars>>

\* initialize_*_store(): Path(store_dir).mkdir(...) and
\* store.save_local(store_dir); either may raise, and then no index is
\* written and the exception leaves get_*_vector_store.
SaveStore(t) ==
    /\ threads[t].pc = "save"
    /\ \E ok \in BOOLEAN :
          IF ok
          THEN /\ onDisk' = [onDisk EXCEPT ![threads[t].corpus] = TRUE]
               /\ threads' = [threads EXCEPT ![t].pc = "publish"]
          ELSE /\ onDisk' = onDisk
               /\ threads' = RaiseFrom(t)
    /\ UNCHANGED <<stores, assignLog, objects>>
    /\ UNCHANGED <<pvars, rvars, dvars, avars, cvars, gvars>>

\* initialize_*_store(): _team_store = store, then back in get_*_vector_store
PublishStore(t) ==
    /\ threads[t].pc = "publish"
    /\ stores' = [stores EXCEPT ![threads[t].corpus] = threads[t].local]
    /\ assignLog' = [assignLog EXCEPT ![threads[t].corpus] =
                         Append(@, threads[t].local)]
    /\ threads' = [threads EXCEPT ![t].pc = "load"]
    /\ UNCHANGED <<onDisk, objects>>
    /\ UNCHANGED <<pvars, rvars, dvars, avars, cvars, gvars>>

\* FAISS.load_local(store_dir, ...), in either branch: the index is read and
\* a new object returned to the caller, which holds it; the global is not
\* assigned yet.
LoadStore(t) ==
    /\ threads[t].pc = "load"
    /\ \E ok \in BOOLEAN :
          IF ok
          THEN /\ objects' = objects + 1
               /\ threads' = [threads EXCEPT ![t].pc = "assign",
                                             ![t].local = objects + 1]
          ELSE /\ objects' = objects
               /\ threads' = RaiseFrom(t)
    /\ UNCHANGED <<stores, onDisk, assignLog>>
    /\ UNCHANGED <<pvars, rvars, dvars, avars, cvars, gvars>>

\* _team_store = <the object load_local returned>
AssignStore(t) ==
    /\ threads[t].pc = "assign"
    /\ stores' = [stores EXCEPT ![threads[t].corpus] = threads[t].local]
    /\ assignLog' = [assignLog EXCEPT ![threads[t].corpus] =
                         Append(@, threads[t].local)]
    /\ threads' = [threads EXCEPT ![t].pc = "return"]
    /\ UNCHANGED <<onDisk, objects>>
    /\ UNCHANGED <<pvars, rvars, dvars, avars, cvars, gvars>>

\* return _team_store
ReturnStore(t) ==
    /\ threads[t].pc = "return"
    /\ threads' = [threads EXCEPT ![t].pc = "idle",
                                  ![t].got = stores[threads[t].corpus],
                                  ![t].gets = @ + 1]
    /\ UNCHANGED <<stores, onDisk, assignLog, objects>>
    /\ UNCHANGED <<pvars, rvars, dvars, avars, cvars, gvars>>

StoreIdle ==
    /\ stores = [c \in Corpora |-> NoStore]
    /\ onDisk = [c \in Corpora |-> TRUE]
    /\ assignLog = [c \in Corpora |-> <<>>]
    /\ objects = 0
    /\ threads = [t \in Threads |-> IdleThread]

\* A fresh process: no store loaded, each index persisted or not.
StoreInit ==
    /\ stores = [c \in Corpora |-> NoStore]
    /\ onDisk \in [Corpora -> BOOLEAN]
    /\ assignLog = [c \in Corpora |-> <<>>]
    /\ objects = 0
    /\ threads = [t \in Threads |-> IdleThread]

(***************************************************************************)
(* Deadline resolution: the rules of DETERMINE_DEADLINES_PROMPT            *)
(* (src/src/prompts.py) and determine_deadlines applied to one item        *)
(***************************************************************************)
AnchorDays == 14

DaysInMonth(y, m) ==
    LET IsLeap == (y % 4 = 0 /\ y % 100 # 0) \/ y % 400 = 0
    IN  CASE m \in {4, 6, 9, 11} -> 30
          [] m = 2 -> IF IsLeap THEN 29 ELSE 28
          [] OTHER -> 31

NextDay(dt) ==
    IF dt.d < DaysInMonth(dt.y, dt.m) THEN [dt EXCEPT !.d = @ + 1]
    ELSE IF dt.m < 12 THEN [y |-> dt.y, m |-> dt.m + 1, d |-> 1]
    ELSE [y |-> dt.y + 1, m |-> 1, d |-> 1]

RECURSIVE AddDays(_, _)
AddDays(dt, n) == IF n = 0 THEN dt ELSE AddDays(NextDay(dt), n - 1)

\* Day of the week, Monday = 0 ... Sunday = 6
Weekday(dt) ==
    LET t == <<0, 3, 2, 5, 0, 3, 5, 1, 4, 6, 2, 4>>
        y == IF dt.m < 3 THEN dt.y - 1 ELSE dt.y
    IN  ((y + (y \div 4) - (y \div 100) + (y \div 400) + t[dt.m] + dt.d) + 6) % 7

\* YYYY-MM-DD
FormatISO(dt) ==
    ZeroPad(Decimal(dt.y), 4) \o "-" \o ZeroPad(Decimal(dt.m), 2)
        \o "-" \o ZeroPad(Decimal(dt.d), 2)

\* Variant: the meeting day itself counts as the next occurrence.
NextWeekdayInclusive(dt, wd) == AddDays(dt, (wd - Weekday(dt) + 7) % 7)

\* The first day after dt that falls on weekday wd.
NextWeekday(dt, wd) == AddDays(dt, ((wd - Weekday(dt) + 6) % 7) + 1)

\* "the next upcoming Friday from the meeting date": the rule does not say
\* whether a meeting held on that weekday counts, so both readings are kept.
UpcomingWeekday(dt, wd) ==
    {NextWeekday(dt, wd)} \cup (IF Weekday(dt) = wd THEN {dt} ELSE {})

RECURSIVE AddBusinessDays(_, _)
AddBusinessDays(dt, n) ==
    IF n = 0 THEN dt
    ELSE IF Weekday(NextDay(dt)) >= 5 THEN AddBusinessDays(NextDay(dt), n)
    ELSE AddBusinessDays(NextDay(dt), n - 1)

EndOfMonth(dt) == [dt EXCEPT !.d = DaysInMonth(dt.y, dt.m)]

EndOfQuarter(y, q) == [y |-> y, m |-> 3 * q, d |-> DaysInMonth(y, 3 * q)]

NextDayPhrases == ("next Monday" :> 0) @@ ("next Wednesday" :> 2)

QuarterPhrases ==
    ("end of Q1" :> 1) @@ ("end of Q2" :> 2) @@ ("end of Q3" :> 3) @@ ("end of Q4" :> 4)

SpecificDates == {"2025-02-12"}

Phrases ==
    {None, "by Friday", "end of this week", "next week", "ASAP", "immediately",
     "end of month"}
        \cup DOMAIN NextDayPhrases \cup DOMAIN QuarterPhrases \cup SpecificDates

\* The dates the rules of the prompt allow for a raw deadline, given the
\* meeting date.
PolicyDates(dt, ph) ==
    CASE ph \in {"by Friday", "end of this week"} ->
            {FormatISO(x) : x \in UpcomingWeekday(dt, 4)}
      [] ph = "next week" -> {FormatISO(NextWeekday(dt, 0))}
      [] ph \in DOMAIN NextDayPhrases ->
            {FormatISO(NextWeekday(dt, NextDayPhrases[ph]))}
      [] ph \in {"ASAP", "immediately"} -> {FormatISO(AddBusinessDays(dt, 2))}
      [] ph = "end of month" -> {FormatISO(EndOfMonth(dt))}
      [] ph \in DOMAIN QuarterPhrases ->
            {FormatISO(EndOfQuarter(dt.y, QuarterPhrases[ph]))}
      [] ph = None -> {FormatISO(AddDays(dt, 7))}
      [] ph \in SpecificDates -> {ph}

\* A date the Gateway may return whatever the rules say.
OffPolicyDates == {"2025-06-07"}

\* The state determine_deadlines receives: an action item with this raw
\* deadline, followed by one whose deadline is already a date.
StateWithItem(ph) ==
    [InitialState(Rep("a", MIN_TRANSCRIPT_LEN), "sample") EXCEPT
        !.action_items =
            <<[id |-> FormatId(1), description |-> "Fix login",
               assignee |-> "Bob", assignee_email |-> "bob@x.com",
               priority |-> "HIGH", deadline |-> ph, context |-> None],
              [id |-> FormatId(2), description |-> "Ship docs",
               assignee |-> "Ann", assignee_email |-> "ann@x.com",
               priority |-> "MEDIUM", deadline |-> "2025-02-12", context |-> None]>>,
        !.processing_step = "assign_owners"]

\* One entry of DeadlineResolution.deadlines: for index 0 or 1 a date the
\* rules allow for that item or another date, or an index naming no item.
ResolutionEntries(dt, ph) ==
    {[index |-> 0, deadline |-> x] : x \in PolicyDates(dt, ph) \cup OffPolicyDates}
        \cup {[index |-> 1, deadline |-> x] :
                 x \in PolicyDates(dt, "2025-02-12") \cup OffPolicyDates}
        \cup {[index |-> 2, deadline |-> x] : x \in OffPolicyDates}

\* The Gateway answers with up to MaxEntries entries, in any order and with
\* any repetition, or fails.
ResolutionReplies(dt, ph) ==
    {Ok(l) : l \in SeqsUpTo(ResolutionEntries(dt, ph), MaxEntries)} \cup {GatewayError}

\* determine_deadlines on that state
ResolveDeadlines ==
    /\ dpc = "call"
    /\ IF ~NonEmpty(dstate.action_items)
       THEN /\ dstate' = Merge(dstate, DetermineDeadlinesNode(dstate, NoReply, NoReply))
            /\ dreply' = NoReply
            /\ dcalls' = dcalls
       ELSE \E llm \in ClientReplies :
            \E reply \in (IF llm.ok THEN ResolutionReplies(meetingDate, phrase)
                          ELSE {NoReply}) :
               /\ dstate' = Merge(dstate, DetermineDeadlinesNode(dstate, llm, reply))
               /\ dreply' = reply
               /\ dcalls' = dcalls \o GatewayCalls("determine_deadlines", llm, reply)
    /\ dpc' = "done"
    /\ UNCHANGED <<meetingDate, phrase>>
    /\ UNCHANGED <<pvars, rvars, svars, avars, cvars, gvars>>

DeadlineIdle ==
    /\ meetingDate = [y |-> 2025, m |-> 6, d |-> 2]
    /\ phrase = None
    /\ dstate = InitialState(<<>>, "sample")
    /\ dreply = NoReply
    /\ dpc = "IDLE"
    /\ dcalls = <<>>

DeadlineInit ==
    /\ meetingDate \in
          {AddDays([y |-> 2025, m |-> 5, d |-> 26], k) : k \in 0..(AnchorDays - 1)}
              \cup {[y |-> 2024, m |-> 2, d |-> 28], [y |-> 2025, m |-> 12, d |-> 30]}
    /\ phrase \in Phrases
    /\ \/ dstate = StateWithItem(phrase)
       \/ /\ phrase = None
          /\ dstate = [StateWithItem(phrase) EXCEPT !.action_items = <<>>]
    /\ dreply = NoReply
    /\ dpc = "call"
    /\ dcalls = <<>>

(***************************************************************************)
(* Meeting date inference (src/src/agent.py, _extract_meeting_date)        *)
(***************************************************************************)
\* The three patterns in the order tried. A pattern is a sequence of items,
\* each a set of characters repeated between min and max times, as many as
\* possible first; group is the item at which group 1 opens (it closes at
\* the end of the pattern). d, w and s are the classes \d, \w and \s of the
\* re module for str patterns, over the characters U+0000..U+00FF (\w takes
\* the letters and the numeric characters of that range, \s what
\* str.isspace() takes); unbounded stands for no upper limit.
DatePatterns ==
    LET d == {"0", "1", "2", "3", "4", "5", "6", "7", "8", "9"}
        w == {"A", "B", "C", "D", "E", "F", "G", "H", "I", "J", "K", "L",
              "M", "N", "O", "P", "Q", "R", "S", "T", "U", "V", "W", "X",
              "Y", "Z", "_", "a", "b", "c", "d", "e", "f", "g", "h", "i",
              "j", "k", "l", "m", "n", "o", "p", "q", "r", "s", "t", "u",
              "v", "w", "x", "y", "z", "ª", "²", "³", "µ", "¹", "º", "¼",
              "½", "¾", "À", "Á", "Â", "Ã", "Ä", "Å", "Æ", "Ç", "È", "É",
              "Ê", "Ë", "Ì", "Í", "Î", "Ï", "Ð", "Ñ", "Ò", "Ó", "Ô", "Õ",
              "Ö", "Ø", "Ù", "Ú", "Û", "Ü", "Ý", "Þ", "ß", "à", "á", "â",
              "ã", "ä", "å", "æ", "ç", "è", "é", "ê", "ë", "ì", "í", "î",
              "ï", "ð", "ñ", "ò", "ó", "ô", "õ", "ö", "ø", "ù", "ú", "û",
              "ü", "ý", "þ", "ÿ"} \cup d
        s == {"\t", "\n", "", "\f", "\r", "", "", "", "", " ", "",
              " "}
        unbounded == 1000
        Lit(c) == [chars |-> {c}, min |-> 1, max |-> 1]
        Rpt(cs, lo, hi) == [chars |-> cs, min |-> lo, max |-> hi]
        \* \w+ \d{1,2},?\s*\d{4}
        monthDayYear ==
            <<Rpt(w, 1, unbounded), Lit(" "), Rpt(d, 1, 2), Rpt({","}, 0, 1),
              Rpt(s, 0, unbounded), Rpt(d, 4, 4)>>
        \* \d{4}-\d{2}-\d{2}
        yearMonthDay ==
            <<Rpt(d, 4, 4), Lit("-"), Rpt(d, 2, 2), Lit("-"), Rpt(d, 2, 2)>>
        \* Date:\s*
        dateLabel ==
            <<Lit("D"), Lit("a"), Lit("t"), Lit("e"), Lit(":"), Rpt(s, 0, unbounded)>>
    IN  << [items |-> dateLabel \o monthDayYear, group |-> Len(dateLabel) + 1],
           [items |-> dateLabel \o yearMonthDay, group |-> Len(dateLabel) + 1],
           [items |-> monthDayYear, group |-> 1] >>

\* Number of characters from position pos on that belong to cs, at most hi.
RECURSIVE Run(_, _, _, _)
Run(text, pos, cs, hi) ==
    IF hi = 0 \/ pos > Len(text) \/ text[pos] \notin cs THEN 0
    ELSE 1 + Run(text, pos + 1, cs, hi - 1)

\* A backtracking match of items k.. at position pos: the positions at which
\* each item starts followed by the position after the match, or <<>>.
RECURSIVE MatchFrom(_, _, _, _)
RECURSIVE TryRepeat(_, _, _, _, _)
MatchFrom(text, pos, items, k) ==
    IF k > Len(items) THEN <<pos>>
    ELSE TryRepeat(text, pos, items, k, Run(text, pos, items[k].chars, items[k].max))

TryRepeat(text, pos, items, k, n) ==
    IF n < items[k].min THEN <<>>
    ELSE LET rest == MatchFrom(text, pos + n, items, k + 1)
         IN  IF rest # <<>> THEN <<pos>> \o rest
             ELSE TryRepeat(text, pos, items, k, n - 1)

\* re.search from position pos on: the match at the leftmost position that
\* has one, or <<>>.
RECURSIVE Search(_, _, _)
Search(text, pos, items) ==
    IF pos > Len(text) + 1 THEN <<>>
    ELSE LET m == MatchFrom(text, pos, items, 1)
         IN  IF m # <<>> THEN m ELSE Search(text, pos + 1, items)

\* match.group(1)
Group1(text, m, pattern) ==
    SubSeq(text, m[pattern.group], m[Len(pattern.items) + 1] - 1)

\* The characters of a string value, as one string.
RECURSIVE Str(_)
Str(cs) == IF cs = <<>> THEN "" ELSE Head(cs) \o Str(Tail(cs))

RECURSIVE FirstMatch(_, _, _, _)
FirstMatch(text, patterns, k, day) ==
    IF k > Len(patterns) THEN FormatISO(day)
    ELSE LET m == Search(text, 1, patterns[k].items)
         IN  IF m # <<>> THEN Str(Group1(text, m, patterns[k]))
             ELSE FirstMatch(text, patterns, k + 1, day)

\* Variant: the bare form is tried before the labeled ones.
ExtractMeetingDateBareFirst(text, day) ==
    FirstMatch(text, <<DatePatterns[3], DatePatterns[1], DatePatterns[2]>>, 1, day)

ExtractMeetingDate(text, day) == FirstMatch(text, DatePatterns, 1, day)

\* Lines a transcript is made of: three with a labeled date in the form
\* Month D, YYYY (one with a carriage return, a tab and a form feed for
\* whitespace and a month that is not ASCII), one with a labeled date in the
\* form YYYY-MM-DD, two with a bare date, one with none. from is where the
\* date starts in the line.
TranscriptLines ==
    { [kind |-> "labeled_month", from |-> 7,
       text |-> <<"D", "a", "t", "e", ":", " ", "J", "u", "n", "e", " ", "2", ",", " ", "2", "0", "2", "5">>],
      [kind |-> "labeled_month", from |-> 7,
       text |-> <<"D", "a", "t", "e", ":", " ", "J", "u", "l", " ", "1", "4", " ", "2", "0", "2", "5">>],
      [kind |-> "labeled_iso", from |-> 7,
       text |-> <<"D", "a", "t", "e", ":", " ", "2", "0", "2", "5", "-", "0", "6", "-", "0", "3">>],
      [kind |-> "labeled_month", from |-> 8,
       text |-> <<"D", "a", "t", "e", ":", "\r", "\t", "M", "ä", "r", "z", " ", "9", ",", "\f", "2", "0", "2", "5">>],
      [kind |-> "bare", from |-> 8,
       text |-> <<"m", "e", "t", " ", "o", "n", " ", "M", "a", "y", " ", "5", " ", "2", "0", "2", "5">>],
      [kind |-> "bare", from |-> 4,
       text |-> <<"b", "y", " ", "M", "a", "r", "c", "h", " ", "1", "0", ",", " ", "2", "0", "2", "4">>],
      [kind |-> "none", from |-> 0,
       text |-> <<"A", "n", "n", ":", " ", "h", "e", "l", "l", "o", " ", "a", "l", "l">>] }

\* "\n".join(lines), as a sequence of characters
RECURSIVE JoinLines(_)
JoinLines(ls) ==
    IF ls = <<>> THEN <<>>
    ELSE IF Len(ls) = 1 THEN ls[1].text
    ELSE ls[1].text \o <<"\n">> \o JoinLines(Tail(ls))

ExtractAnchor ==
    /\ apc = "call"
    /\ anchor' = ExtractMeetingDate(JoinLines(lines), today)
    /\ apc' = "done"
    /\ UNCHANGED <<lines, today>>
    /\ UNCHANGED <<pvars, rvars, svars, dvars, cvars, gvars>>

AnchorIdle ==
    /\ lines = <<>>
    /\ today = [y |-> 2025, m |-> 6, d |-> 2]
    /\ anchor = "<not called>"
    /\ apc = "IDLE"

AnchorInit ==
    /\ lines \in SeqsUpTo(TranscriptLines, MaxLines)
    /\ today \in {[y |-> 2025, m |-> 6, d |-> 2], [y |-> 2024, m |-> 2, d |-> 29]}
    /\ anchor = "<not called>"
    /\ apc = "call"

(***************************************************************************)
(* Assistant chat loop (src/src/ui/assistant.py)                           *)
(***************************************************************************)
\* What pt_prompt returns: a line as typed, or EOFError / KeyboardInterrupt.
UserInputs ==
    { [eof |-> TRUE, chars |-> <<>>],
      [eof |-> FALSE,
       chars |-> <<" ", "\t">>],
      [eof |-> FALSE,
       chars |-> <<"/", "C", "l", "e", "a", "r", "\r">>],
      [eof |-> FALSE,
       chars |-> <<"/", "h", "e", "l", "p">>],
      [eof |-> FALSE,
       chars |-> <<"Q">>],
      [eof |-> FALSE,
       chars |-> <<" ", "W", "h", "o", " ", "i", "s", " ", "t", "h", "e", " ", "Q", "A", " ", "l", "e", "a", "d", "?">>],
      [eof |-> FALSE,
       chars |-> <<"W", "h", "a", "t", " ", "d", "i", "d", " ", "w", "e", " ", "d", "e", "c", "i", "d", "e", " ", "a", "b", "o", "u", "t", " ", "t", "h", "e", " ", "l", "a", "u", "n", "c", "h", " ", "d", "a", "t", "e", "?">>] }

\* str.lower() on a sequence of characters of U+0000..U+00FF
Lower(cs) ==
    LET upper == <<"A", "B", "C", "D", "E", "F", "G", "H", "I", "J", "K",
                   "L", "M", "N", "O", "P", "Q", "R", "S", "T", "U", "V",
                   "W", "X", "Y", "Z", "À", "Á", "Â", "Ã", "Ä", "Å", "Æ",
                   "Ç", "È", "É", "Ê", "Ë", "Ì", "Í", "Î", "Ï", "Ð", "Ñ",
                   "Ò", "Ó", "Ô", "Õ", "Ö", "Ø", "Ù", "Ú", "Û", "Ü", "Ý",
                   "Þ">>
        lower == <<"a", "b", "c", "d", "e", "f", "g", "h", "i", "j", "k",
                   "l", "m", "n", "o", "p", "q", "r", "s", "t", "u", "v",
                   "w", "x", "y", "z", "à", "á", "â", "ã", "ä", "å", "æ",
                   "ç", "è", "é", "ê", "ë", "ì", "í", "î", "ï", "ð", "ñ",
                   "ò", "ó", "ô", "õ", "ö", "ø", "ù", "ú", "û", "ü", "ý",
                   "þ">>
    IN  [i \in 1..Len(cs) |->
            IF \E k \in 1..Len(upper) : upper[k] = cs[i]
            THEN lower[CHOOSE k \in 1..Len(upper) : upper[k] = cs[i]]
            ELSE cs[i]]

\* Variant: only the assistant's message is appended.
AppendTurnAnswerOnly(h, user_input, answer) ==
    Append(h, [role |-> "ai", content |-> answer])

\* history.append(HumanMessage(...)); history.append(AIMessage(...))
AppendTurn(h, user_input, answer) ==
    Append(Append(h, [role |-> "human", content |-> user_input]),
           [role |-> "ai", content |-> answer])

\* The loop waiting at pt_prompt with this history.
AtPrompt(c, h, user_input) ==
    [c EXCEPT !.pc = "prompt", !.history = h, !.user_input = user_input,
              !.tokens = [chunks |-> <<>>, error |-> ""], !.pos = 0, !.accumulated = "", !.source = None,
              !.reads = c.reads + 1]

\* One pass of the while loop of run_assistant up to the point where the
\* token generator is handed to _stream_answer: read a line, handle a command,
\* or call ask_stream.
ReadInput ==
    /\ chat.pc = "prompt"
    /\ chat.reads < MaxReads
    /\ \E raw \in UserInputs :
          LET user_input == Str(Strip(raw.chars))
              cmd == Str(Lower(Strip(raw.chars)))
          IN  IF raw.eof \/ (user_input # "" /\ cmd \in {"/exit", "/quit", "q"})
              THEN chat' = [AtPrompt(chat, chat.history, user_input) EXCEPT !.pc = "exited"]
              ELSE IF user_input = "" \/ cmd = "/help"
              THEN chat' = AtPrompt(chat, chat.history, user_input)
              ELSE IF cmd = "/clear"
              THEN chat' = AtPrompt(chat, <<>>, user_input)
              ELSE \E st \in Stubs :
                      LET r == AskStreamResolve(user_input, SomeHistory(chat.history), st)
                      IN  IF ~r.ok \/ ~st.client.ok
                          THEN chat' = AtPrompt(chat, chat.history, user_input)
                          ELSE chat' = [AtPrompt(chat, chat.history, user_input) EXCEPT
                                           !.pc = "streaming", !.tokens = st.answer,
                                           !.source = r.source]
    /\ UNCHANGED <<pvars, rvars, svars, dvars, avars, gvars>>

\* One pass of 'for token in tokens' in _stream_answer: the next fragment is
\* accumulated; or the generator ends, the answer is returned and
\* run_assistant appends the turn; or chain.stream raises and run_assistant
\* prints the error.
NextToken ==
    /\ chat.pc = "streaming"
    /\ LET i == NextContent(chat.tokens.chunks, chat.pos)
       IN  IF i # 0
           THEN chat' = [chat EXCEPT !.pos = i,
                                     !.accumulated = @ \o chat.tokens.chunks[i]]
           ELSE IF chat.tokens.error = ""
           THEN chat' = [chat EXCEPT !.pc = "prompt",
                                     !.history = AppendTurn(chat.history, chat.user_input,
                                                            chat.accumulated)]
           ELSE chat' = [chat EXCEPT !.pc = "prompt"]
    /\ UNCHANGED <<pvars, rvars, svars, dvars, avars, gvars>>

ChatIdle ==
    chat = [pc |-> "IDLE", history |-> <<>>, user_input |-> "", tokens |-> [chunks |-> <<>>, error |-> ""],
            pos |-> 0, accumulated |-> "", source |-> None, reads |-> 0]

\* run_assistant starts with history = [].
ChatInit ==
    chat = [pc |-> "prompt", history |-> <<>>, user_input |-> "", tokens |-> [chunks |-> <<>>, error |-> ""],
            pos |-> 0, accumulated |-> "", source |-> None, reads |-> 0]

(***************************************************************************)
(* Demo trace generator (src/scripts/generate_demo_traces.py)              *)
(***************************************************************************)
\* One pass of 'for filepath in files' in main: the file is read,
\* process_transcript is called with the keywords transcript (positional),
\* source and share, and a row is added to the table. A keyword the function
\* does not declare is a TypeError raised before its body runs; main catches
\* every Exception and adds an ERR row with the first 60 characters of the
\* message. reached counts the calls that got as far as graph.invoke. After
\* the last file main goes on to the assistant queries.
ProcessFile ==
    /\ demo.pc = "files"
    /\ demo.next <= Len(demo.files)
    /\ LET given == {"transcript", "source", "share"}
           declared == {"transcript", "source"}
           Row(actions, emails, detail) ==
               [file |-> demo.next, actions |-> actions, emails |-> emails,
                detail |-> detail]
           ErrRow(e) == Row("ERR", "ERR", IF Len(e) > 60 THEN SubSeq(e, 1, 60) ELSE e)
           after == IF demo.next = Len(demo.files) THEN "queries" ELSE "files"
       IN  IF ~(given \subseteq declared)
           THEN demo' = [demo EXCEPT
                            !.pc = after,
                            !.next = @ + 1,
                            !.rows = Append(@, ErrRow(
                                "process_transcript() got an unexpected keyword argument 'share'"))]
           ELSE \E run \in {Ok([actions |-> a, emails |-> e]) :
                               a \in 0..MaxItems, e \in 0..MaxItems}
                           \cup {Raise("api_key must be set")} :
                   demo' = [demo EXCEPT
                               !.pc = after,
                               !.next = @ + 1,
                               !.reached = @ + 1,
                               !.rows = Append(@,
                                   IF run.ok
                                   THEN Row(Decimal(run.value.actions),
                                            Decimal(run.value.emails), "")
                                   ELSE ErrRow(run.error))]
    /\ UNCHANGED <<pvars, rvars, svars, dvars, avars, cvars>>

\* What ask(query) does for each of SAMPLE_ASSISTANT_QUERIES, in order, with
\* no history: it returns (answer, source) or raises, as the Gateway and the
\* Retriever answer.
DemoAnswers ==
    LET SAMPLE_ASSISTANT_QUERIES ==
            <<"Who on the team has Python expertise?",
              "What was discussed in the meeting with Todd?",
              "Who is the QA lead?",
              "What design work is being done on the component library?",
              "What is LangGraph?">>
        Returned(q, st) ==
            LET r == AskResolve(q, NoHistory, st)
            IN  IF ~r.ok THEN Raise(r.error)
                ELSE IF ~st.client.ok THEN Raise(st.client.error)
                ELSE IF st.answer.error # "" THEN Raise(st.answer.error)
                ELSE Ok([answer |-> Concat(st.answer.chunks), source |-> r.source])
    IN  [k \in 1..Len(SAMPLE_ASSISTANT_QUERIES) |->
            [query |-> SAMPLE_ASSISTANT_QUERIES[k],
             returns |-> {Returned(SAMPLE_ASSISTANT_QUERIES[k], st) : st \in Stubs}]]

\* One pass of 'for query in SAMPLE_ASSISTANT_QUERIES' in main: the row shows
\* the source and the first 80 characters of the answer, or ERR and the first
\* 60 characters of the exception's message.
AskQuery ==
    /\ demo.pc = "queries"
    /\ LET k == Len(demo.answers) + 1
           query == DemoAnswers[k].query
       IN  \E ret \in DemoAnswers[k].returns :
              demo' = [demo EXCEPT
                          !.pc = IF k = Len(DemoAnswers) THEN "done" ELSE "queries",
                          !.answers = Append(@,
                              IF ret.ok
                              THEN [query |-> query, source |-> ret.value.source,
                                    preview |->
                                        IF Len(ret.value.answer) > 80
                                        THEN SubSeq(ret.value.answer, 1, 80) \o "..."
                                        ELSE ret.value.answer]
                              ELSE [query |-> query, source |-> "ERR",
                                    preview |-> IF Len(ret.error) > 60
                                                THEN SubSeq(ret.error, 1, 60)
                                                ELSE ret.error])]
    /\ UNCHANGED <<pvars, rvars, svars, dvars, avars, cvars>>

DemoIdle ==
    demo = [pc |-> "IDLE", files |-> <<>>, share |-> TRUE, next |-> 1, rows |-> <<>>,
            reached |-> 0, answers |-> <<>>]

\* main is started with or without --private on a directory holding up to
\* MaxFiles transcript files; with no file it prints a message and returns.
DemoInit ==
    \E files \in SeqsUpTo(Transcripts, MaxFiles), share \in BOOLEAN :
        demo = [pc |-> IF files = <<>> THEN "done" ELSE "files",
                files |-> files, share |-> share, next |-> 1,
                rows |-> <<>>, reached |-> 0, answers |-> <<>>]

Init == PipelineInit /\ RouterIdle /\ StoreIdle /\ DeadlineIdle /\ AnchorIdle /\ ChatIdle
           /\ DemoIdle

Next ==
    \/ Intake
    \/ Summarize
    \/ ExtractActionItems
    \/ AssignOwners
    \/ DetermineDeadlines
    \/ SendEmails

Spec == Init /\ [][Next]_vars

\* process_transcript, then process_transcript_stream on the same transcript
\* and source, for extractions of up to MaxComparedItems action items. The
\* Gateway, the Retriever and the Dispatcher are deterministic: a call the
\* first run made (same callee, node, item and argument) gets in the second
\* run the reply it got in the first.
InitBoth == Init /\ mode = "invoke"

NextBoth ==
    LET SameWorld ==
            earlier.done =>
                \A i \in 1..Len(calls'), j \in 1..Len(earlier.calls) :
                    (/\ calls'[i].kind = earlier.calls[j].kind
                     /\ calls'[i].stage = earlier.calls[j].stage
                     /\ calls'[i].item = earlier.calls[j].item
                     /\ calls'[i].arg = earlier.calls[j].arg)
                        => calls'[i].reply = earlier.calls[j].reply
    IN  \/ Next /\ SameWorld /\ Len(state'.action_items) <= MaxComparedItems
        \/ StreamAfterInvoke

SpecBoth == InitBoth /\ [][NextBoth]_vars

\* The router on its own: one question, one history, one deterministic stub.
InitRouter ==
    PipelineIdle /\ RouterInit /\ StoreIdle /\ DeadlineIdle /\ AnchorIdle /\ ChatIdle
        /\ DemoIdle

NextRouter ==
    \/ Ask
    \/ AskStream
    \/ NextFragment

SpecRouter == InitRouter /\ [][NextRouter]_vars

\* The stores on their own: concurrent callers of get_*_vector_store.
InitStore ==
    PipelineIdle /\ RouterIdle /\ StoreInit /\ DeadlineIdle /\ AnchorIdle /\ ChatIdle
        /\ DemoIdle

NextStore ==
    \E t \in Threads :
        \/ \E c \in Corpora : GetVectorStore(t, c)
        \/ ProbeIndex(t)
        \/ BuildStore(t)
        \/ SaveStore(t)
        \/ PublishStore(t)
        \/ LoadStore(t)
        \/ AssignStore(t)
        \/ ReturnStore(t)

SpecStore == InitStore /\ [][NextStore]_vars

\* determine_deadlines on one item, for every meeting date and raw deadline.
InitDeadline ==
    PipelineIdle /\ RouterIdle /\ StoreIdle /\ DeadlineInit /\ AnchorIdle /\ ChatIdle
        /\ DemoIdle

NextDeadline == ResolveDeadlines

SpecDeadline == InitDeadline /\ [][NextDeadline]_vars

\* _extract_meeting_date applied to every transcript of up to MaxLines lines.
InitAnchor ==
    PipelineIdle /\ RouterIdle /\ StoreIdle /\ DeadlineIdle /\ AnchorInit /\ ChatIdle
        /\ DemoIdle

SpecAnchor == InitAnchor /\ [][ExtractAnchor]_vars

\* run_assistant, for up to MaxReads lines read from the prompt.
InitChat ==
    PipelineIdle /\ RouterIdle /\ StoreIdle /\ DeadlineIdle /\ AnchorIdle /\ ChatInit
        /\ DemoIdle

SpecChat == InitChat /\ [][ReadInput \/ NextToken]_vars

\* main of generate_demo_traces.py: the loop over the transcript files, then
\* the loop over the assistant queries.
InitDemo ==
    PipelineIdle /\ RouterIdle /\ StoreIdle /\ DeadlineIdle /\ AnchorIdle /\ ChatIdle
        /\ DemoInit

SpecDemo == InitDemo /\ [][ProcessFile \/ AskQuery]_vars

(***************************************************************************)
(* Observations on a run                                                   *)
(***************************************************************************)
NodeNames(tr) == [i \in 1..Len(tr) |-> tr[i][1]]

Ran(node) == \E i \in 1..Len(trace) : trace[i][1] = node

UpdateOf(node) == trace[CHOOSE i \in 1..Len(trace) : trace[i][1] = node][2]

CallsOf(kind, stage) ==
    {i \in 1..Len(calls) : calls[i].kind = kind /\ calls[i].stage = stage}

ReplyOf(kind, stage) == calls[CHOOSE i \in CallsOf(kind, stage) : TRUE].reply

Answered(kind, stage) == \E i \in CallsOf(kind, stage) : calls[i].reply.ok

Refused(kind, stage) == \E i \in CallsOf(kind, stage) : ~calls[i].reply.ok

IsPrefix(a, b) == Len(a) <= Len(b) /\ SubSeq(b, 1, Len(a)) = a

RECURSIVE ErrorsOf(_)
ErrorsOf(tr) ==
    IF tr = <<>> THEN <<>>
    ELSE (IF "errors" \in DOMAIN Head(tr)[2] THEN Head(tr)[2].errors ELSE <<>>)
         \o ErrorsOf(Tail(tr))

TooShort(t) == Len(Strip(t)) < 20

SubChain == {"assign_owners", "determine_deadlines", "send_emails"}

(***************************************************************************)
(* C1: when extract_action_items yields no action item, the run ends after *)
(* intake, summarize, extract_action_items: no sub-chain node runs and no  *)
(* Retriever, Dispatcher or sub-chain Gateway call is made.                *)
(***************************************************************************)
C1_EmptyExtractionSkipsSubChain ==
    (Ran("extract_action_items")
        /\ UpdateOf("extract_action_items").action_items = <<>>)
    => /\ pc = "END"
       /\ NodeNames(trace) = <<"intake", "summarize", "extract_action_items">>
       /\ \A i \in 1..Len(calls) :
             /\ calls[i].kind \in {"client", "gateway"}
             /\ calls[i].stage \notin SubChain

C1_Witness ==
    /\ pc = "END"
    /\ Len(trace) = 3
    /\ state.action_items = <<>>
    /\ Answered("gateway", "extract_action_items")
    /\ mode = "stream"

(***************************************************************************)
(* C2: no failure of the Gateway, of its client construction, of the       *)
(* Retriever or of the Dispatcher leaves the pipeline as an exception.     *)
(***************************************************************************)
C2_NeverRaises == pc # "RAISED"

(***************************************************************************)
(* C3: a run on a transcript shorter than 20 trimmed characters ends with  *)
(* exactly one validation error from intake and no action item.            *)
(***************************************************************************)
C3_ShortTranscriptYieldsNoItems ==
    (TooShort(state.transcript) /\ pc = "END")
    => /\ "errors" \in DOMAIN UpdateOf("intake")
       /\ Len(UpdateOf("intake").errors) = 1
       /\ state.action_items = <<>>

(***************************************************************************)
(* C4: a summarize step whose Gateway call (or client construction) fails  *)
(* sets the fallback summary, empties key_topics and participants, appends *)
(* exactly one entry to errors, and hands over to extract_action_items.    *)
(***************************************************************************)
C4_SummarizeFailure ==
    [][(pc = "summarize" /\ ~calls'[Len(calls')].reply.ok)
        => /\ state'.summary = "Error generating summary."
           /\ state'.key_topics = <<>>
           /\ state'.participants = <<>>
           /\ Len(state'.errors) = Len(state.errors) + 1
           /\ IsPrefix(state.errors, state'.errors)
           /\ pc' = "extract_action_items"]_vars

C4_Witness ==
    /\ pc = "extract_action_items"
    /\ TooShort(state.transcript)
    /\ Refused("gateway", "summarize")
    /\ Len(state.errors) = 2

(***************************************************************************)
(* C5: the action item at 0-based position i carries id ai-(i+1) padded to *)
(* three digits, from extraction on and through every later stage.         *)
(***************************************************************************)
ExpectedIds ==
    <<"ai-001", "ai-002", "ai-003", "ai-004", "ai-005",
      "ai-006", "ai-007", "ai-008", "ai-009">>

C5_IdsSequentialAndStable ==
    /\ \A p \in 1..Len(state.action_items) :
          state.action_items[p].id = ExpectedIds[p]
    /\ \A i \in 1..Len(trace) :
          "action_items" \in DOMAIN trace[i][2]
          => \A p \in 1..Len(trace[i][2].action_items) :
                trace[i][2].action_items[p].id = ExpectedIds[p]

C5_Witness ==
    /\ pc = "END"
    /\ state.processing_step = "send_emails"
    /\ Len(state.action_items) = 2
    /\ state.action_items[2].id = "ai-002"
    /\ state.action_items # UpdateOf("extract_action_items").action_items

(***************************************************************************)
(* C6: an item whose lookup or match failed in assign_owners leaves the    *)
(* stage with the assignee mentioned at extraction, or with "Unassigned"   *)
(* when none was mentioned.                                                *)
(***************************************************************************)
C6_FailedItemKeepsNameOrUnassigned ==
    Ran("assign_owners")
    => /\ Len(UpdateOf("assign_owners").action_items)
            = Len(UpdateOf("extract_action_items").action_items)
       /\ \A i \in 1..Len(calls) :
            (calls[i].stage = "assign_owners"
                /\ calls[i].kind \in {"retriever", "gateway"}
                /\ ~calls[i].reply.ok)
            => LET mentioned ==
                       UpdateOf("extract_action_items").action_items[calls[i].item].assignee
                   assigned ==
                       UpdateOf("assign_owners").action_items[calls[i].item].assignee
               IN  assigned = IF mentioned # None THEN mentioned ELSE "Unassigned"

(***************************************************************************)
(* C7: after a successful determine_deadlines, an entry whose index is out *)
(* of range has changed nothing and added no error, and each item holds    *)
(* the deadline of the in-range entries naming it, or what it had before.  *)
(***************************************************************************)
EntriesFor(entries, idx) == SelectSeq(entries, LAMBDA e : e.index = idx)

C7_OutOfRangeEntriesDropped ==
    (Ran("determine_deadlines") /\ Answered("gateway", "determine_deadlines"))
    => LET before == UpdateOf("assign_owners").action_items
           update == UpdateOf("determine_deadlines")
           entries == ReplyOf("gateway", "determine_deadlines").value
       IN  /\ "errors" \notin DOMAIN update
           /\ Len(update.action_items) = Len(before)
           /\ \A p \in 1..Len(before) :
                 LET mine == EntriesFor(entries, p - 1)
                 IN  update.action_items[p] =
                        IF mine = <<>> THEN before[p]
                        ELSE [before[p] EXCEPT !.deadline = mine[Len(mine)].deadline]

C7_Witness ==
    /\ Ran("determine_deadlines")
    /\ Answered("gateway", "determine_deadlines")
    /\ ReplyOf("gateway", "determine_deadlines").value
          = <<[index |-> 5, deadline |-> "2025-06-06"],
              [index |-> 1, deadline |-> "2025-06-06"]>>
    /\ Len(state.action_items) = 2
    /\ state.action_items[1].deadline = "by Friday"
    /\ state.action_items[2].deadline = "2025-06-06"

(***************************************************************************)
(* C8: errors only grows, and always is the concatenation, in execution    *)
(* order, of the error entries the executed nodes returned.                *)
(***************************************************************************)
C8_ErrorsAppendOnly ==
    [][/\ IsPrefix(state.errors, state'.errors)
       /\ state'.errors = ErrorsOf(trace')]_vars

C8_Witness ==
    /\ pc = "END"
    /\ Len(state.errors) = 3
    /\ state.errors[1] = "Transcript is empty or too short (minimum 20 characters)."
    /\ state.errors[2] = "Summarize error: gateway down"
    /\ state.errors[3] = "Extract action items error: gateway down"

(***************************************************************************)
(* C9: a classification whose category is not exactly team, meeting or     *)
(* general sends ask and ask_stream to the general strategy (general       *)
(* prompt, no context, no search, label "General Knowledge") and raises    *)
(* nothing on the way.                                                     *)
(***************************************************************************)
UnknownCategory ==
    /\ stub.client.ok
    /\ stub.classify.ok
    /\ stub.classify.value.category \notin {"team", "meeting", "general"}

GeneralStrategy(out) ==
    /\ out.resolved
    /\ out.prompt = "GENERAL_PROMPT"
    /\ out.inputs = [question |-> question, history |-> HistoryOrEmpty(history)]
    /\ ~out.raised => out.source = "General Knowledge"

C9_UnknownCategoryFallsBackToGeneral ==
    UnknownCategory
    => /\ askOut.called
          => /\ GeneralStrategy(askOut)
             /\ askOut.raised <=> stub.answer.error # ""
       /\ streamOut.called
          => /\ GeneralStrategy(streamOut)
             /\ ~streamOut.raised
       /\ \A i \in 1..Len(rcalls) : rcalls[i].kind # "retriever"

C9_Witness ==
    /\ stub.classify.ok
    /\ stub.classify.value.category = "Team"
    /\ askOut.called
    /\ askOut.source = "General Knowledge"
    /\ askOut.answer = "Ann leads QA."
    /\ streamOut.called
    /\ streamOut.source = "General Knowledge"
    /\ gen.status = "done"
    /\ emitted = <<"Ann ", "leads QA.">>

(***************************************************************************)
(* C10: for one question, one history and one deterministic stub, ask and  *)
(* ask_stream pick the same prompt and the same inputs (context included)  *)
(* and, when both return, the same source label.                           *)
(***************************************************************************)
C10_AskAndAskStreamAgree ==
    (askOut.called /\ streamOut.called)
    => /\ askOut.resolved = streamOut.resolved
       /\ askOut.prompt = streamOut.prompt
       /\ askOut.inputs = streamOut.inputs
       /\ (~askOut.raised /\ ~streamOut.raised)
             => askOut.source = streamOut.source

C10_Witness ==
    /\ askOut.called
    /\ streamOut.called
    /\ ~askOut.raised
    /\ ~streamOut.raised
    /\ askOut.source = "Team Directory"
    /\ streamOut.source = "Team Directory"
    /\ streamOut.prompt = "TEAM_RAG_PROMPT"
    /\ streamOut.inputs.context
          = "[Ann Lee - QA Lead]\nName: Ann Lee\n\n[Unknown - ]\nName: Bob Roy"
    /\ history = NoHistory

(***************************************************************************)
(* C11: the query router never throws to its caller: whatever the Gateway  *)
(* or the Retriever do, ask returns an answer with its label, ask_stream   *)
(* returns a label with a generator, and the generator ends without an     *)
(* exception. The code does not do this: chain.py has no exception         *)
(* handler, so a failed classification, search, client construction or     *)
(* answer call leaves ask and ask_stream as an exception.                  *)
(***************************************************************************)
C11_RouterNeverRaises ==
    /\ askOut.called => ~askOut.raised
    /\ streamOut.called => ~streamOut.raised
    /\ gen.status # "raised"

(***************************************************************************)
(* C12: when the Retriever fails on a question routed to the team or the   *)
(* meeting strategy, the router goes on with an empty context and still    *)
(* asks the Gateway for an answer. The code does not do this: the search   *)
(* exception leaves the chain-input builder, _resolve_category and ask,    *)
(* and the answer call is never made.                                      *)
(***************************************************************************)
RetrieverFailed(st) ==
    /\ st.classify.ok
    /\ \/ st.classify.value.category = "team" /\ ~st.team.ok
       \/ st.classify.value.category = "meeting" /\ ~st.meeting.ok

AnswerAsked ==
    \E i \in 1..Len(rcalls) : rcalls[i].kind = "gateway" /\ rcalls[i].stage = "answer"

C12_RetrieverFailureGivesEmptyContext ==
    (askOut.called /\ ~streamOut.called /\ RetrieverFailed(stub) /\ stub.client.ok)
        => /\ askOut.resolved
           /\ askOut.inputs.context = ""
           /\ AnswerAsked

(***************************************************************************)
(* C13: an extract_action_items step whose Gateway call (or client         *)
(* construction) fails sets action_items to the empty list, appends        *)
(* exactly one entry to errors, leaves summary, key_topics and             *)
(* participants as summarize set them, and ends the run there, with        *)
(* emails_sent still empty.                                                *)
(***************************************************************************)
C13_ExtractFailure ==
    [][(pc = "extract_action_items" /\ ~calls'[Len(calls')].reply.ok)
        => /\ state'.action_items = <<>>
           /\ Len(state'.errors) = Len(state.errors) + 1
           /\ IsPrefix(state.errors, state'.errors)
           /\ state'.summary = UpdateOf("summarize").summary
           /\ state'.key_topics = UpdateOf("summarize").key_topics
           /\ state'.participants = UpdateOf("summarize").participants
           /\ pc' = "END"
           /\ state'.emails_sent = <<>>]_vars

C13_Witness ==
    /\ pc = "END"
    /\ Answered("gateway", "summarize")
    /\ Refused("gateway", "extract_action_items")
    /\ state.summary = UpdateOf("summarize").summary
    /\ state.participants # <<>>
    /\ state.errors = <<"Extract action items error: gateway down">>

(***************************************************************************)
(* C14: a determine_deadlines step whose Gateway call (or client           *)
(* construction) fails appends exactly one entry to errors, leaves the     *)
(* action items exactly as assign_owners produced them, has asked the      *)
(* Gateway at most once, and hands over to send_emails.                    *)
(***************************************************************************)
C14_DeadlineFailure ==
    [][(pc = "determine_deadlines" /\ calls' # calls
            /\ ~calls'[Len(calls')].reply.ok)
        => /\ state'.action_items = state.action_items
           /\ state'.action_items = UpdateOf("assign_owners").action_items
           /\ Len(state'.errors) = Len(state.errors) + 1
           /\ IsPrefix(state.errors, state'.errors)
           /\ Cardinality({i \in 1..Len(calls') :
                              /\ calls'[i].kind = "gateway"
                              /\ calls'[i].stage = "determine_deadlines"}) <= 1
           /\ pc' = "send_emails"]_vars

C14_Witness ==
    /\ pc = "send_emails"
    /\ Refused("gateway", "determine_deadlines")
    /\ Len(state.action_items) = 2
    /\ state.action_items[1].deadline = "by Friday"
    /\ state.action_items[2].deadline = None
    /\ state.errors = <<"Deadline resolution error: gateway down">>

(***************************************************************************)
(* C15: send_emails asks the dispatcher exactly once for every action item *)
(* whose assignee_email is neither None nor empty and never for another    *)
(* item; emails_sent is, in item order, the addresses of the requests the  *)
(* dispatcher answered with status "sent"; the step adds nothing to        *)
(* errors.                                                                 *)
(***************************************************************************)
DispatchCalls == SelectSeq(calls, LAMBDA c : c.kind = "dispatcher")

AddressesOf(cs) == [i \in 1..Len(cs) |-> cs[i].arg]

C15_OneDispatchPerAddressedItem ==
    Ran("send_emails")
        => /\ \A p \in 1..Len(state.action_items) :
                 Cardinality({i \in 1..Len(DispatchCalls) : DispatchCalls[i].item = p})
                    = IF state.action_items[p].assignee_email \in {None, ""}
                      THEN 0 ELSE 1
           /\ \A i \in 1..Len(DispatchCalls) :
                 /\ DispatchCalls[i].item \in 1..Len(state.action_items)
                 /\ DispatchCalls[i].arg
                        = state.action_items[DispatchCalls[i].item].assignee_email
                 /\ i > 1 => DispatchCalls[i - 1].item < DispatchCalls[i].item
           /\ state.emails_sent =
                 AddressesOf(SelectSeq(DispatchCalls,
                                       LAMBDA c : c.reply.value = "sent"))
           /\ "errors" \notin DOMAIN UpdateOf("send_emails")

C15_Witness ==
    /\ pc = "END"
    /\ Len(state.action_items) = 2
    /\ state.action_items[1].assignee_email = ""
    /\ state.action_items[2].assignee_email = "bob@x.com"
    /\ Len(DispatchCalls) = 1
    /\ state.emails_sent = <<"bob@x.com">>

(***************************************************************************)
(* C16: process_transcript_stream yields one (node name, update) pair for  *)
(* every node that ran, in execution order, each as its node completes and *)
(* before the next one starts; no name comes twice, and the names yielded  *)
(* by a finished run are the first three of PROCESSING_STEPS or all six.   *)
(***************************************************************************)
C16_StreamYieldsStagesInOrder ==
    [][mode' = "stream"
        => /\ IsPrefix(NodeNames(trace'), PROCESSING_STEPS)
           /\ \A i, j \in 1..Len(trace') : trace'[i][1] = trace'[j][1] => i = j
           /\ pc' # "RAISED"
                 => /\ Len(trace') = Len(trace) + 1
                    /\ SubSeq(trace', 1, Len(trace)) = trace
                    /\ trace'[Len(trace')][1] = pc
           /\ pc' \in {"END", "RAISED"} => Len(trace') \in {3, 6}]_vars

C16_Witness ==
    /\ mode = "stream"
    /\ pc = "END"
    /\ NodeNames(trace) = PROCESSING_STEPS
    /\ Len(calls) > 6

(***************************************************************************)
(* C17: streaming only observes the run. When process_transcript has ended *)
(* and process_transcript_stream is then run on the same transcript and    *)
(* source against the same deterministic Gateway, Retriever and            *)
(* Dispatcher, the streamed run goes through the stages the first run went *)
(* through and makes the external calls it made, in the same order, at     *)
(* every point a prefix of them and at its end all of them; it raises      *)
(* exactly when the first run raised; and when the first run returned,     *)
(* folding the yielded updates into the initial state, every key replaced  *)
(* by the update's value and errors extended by the update's errors, gives *)
(* exactly the state the first run returned.                               *)
(***************************************************************************)
FoldUpdate(s, u) ==
    [f \in DOMAIN s |->
        IF f \notin DOMAIN u THEN s[f]
        ELSE IF f = "errors" THEN s.errors \o u.errors
        ELSE u[f]]

RECURSIVE Replay(_, _)
Replay(s, tr) ==
    IF tr = <<>> THEN s ELSE Replay(FoldUpdate(s, Head(tr)[2]), Tail(tr))

C17_StreamRunMatchesInvokeRun ==
    (earlier.done /\ mode = "stream") =>
        /\ IsPrefix(NodeNames(trace), earlier.stages)
        /\ IsPrefix(calls, earlier.calls)
        /\ pc \in {"END", "RAISED"} =>
              /\ NodeNames(trace) = earlier.stages
              /\ calls = earlier.calls
              /\ (pc = "RAISED") = earlier.raised
              /\ ~earlier.raised =>
                    Replay(InitialState(earlier.state.transcript,
                                        earlier.state.transcript_source), trace)
                        = earlier.state

\* Both runs went through all six stages, with three errors recorded and an
\* e-mail sent, and the streamed one has ended.
C17_Witness ==
    /\ earlier.done
    /\ ~earlier.raised
    /\ mode = "stream"
    /\ pc = "END"
    /\ Len(trace) = 6
    /\ Len(earlier.state.errors) = 3
    /\ earlier.state.emails_sent # <<>>
    /\ Len(earlier.calls) > 6

(***************************************************************************)
(* C18: each module-level store handle is assigned at most once in a       *)
(* process and never assigned again, for any number of calls of            *)
(* get_team_vector_store / get_meetings_vector_store and any interleaving  *)
(* of two concurrent callers, whether or not the index is already on disk. *)
(* The code does not do this: with no index on disk, one call assigns the  *)
(* handle in initialize_*_store and assigns it again from load_local; and  *)
(* two callers that both saw None both assign it.                          *)
(***************************************************************************)
C18_HandleAssignedAtMostOnce ==
    \A c \in Corpora : Len(assignLog[c]) <= 1

(***************************************************************************)
(* C19 (as claimed): an action item whose deadline is already a            *)
(* YYYY-MM-DD string has that same string after determine_deadlines.       *)
(* The code has no such rule: it stores whatever date the Gateway returns  *)
(* for the item's index.                                                   *)
(***************************************************************************)
\* The YYYY-MM-DD strings of one year, enough to recognise the deadlines
\* the action items of the model carry.
ISODates ==
    UNION { {FormatISO([y |-> 2025, m |-> m, d |-> d]) :
                d \in 1..DaysInMonth(2025, m)} : m \in 1..12 }

IsISO(v) == v \in ISODates

C19_ISODeadlineUnchanged ==
    [][pc = "determine_deadlines"
        => \A p \in 1..Len(state.action_items) :
              IsISO(state.action_items[p].deadline)
                 => state'.action_items[p].deadline = state.action_items[p].deadline]_vars

(***************************************************************************)
(* C19 (amended): an action item whose deadline is already a YYYY-MM-DD    *)
(* string keeps it through determine_deadlines unless the Gateway's result *)
(* names the item's 0-based index; then the item carries the date of the   *)
(* last entry that names it.                                               *)
(***************************************************************************)
NamingEntries(entries, p) == {k \in 1..Len(entries) : entries[k].index = p - 1}

Last(S) == CHOOSE k \in S : \A j \in S : j <= k

C19_ISODeadlineChangesOnlyAsReturned ==
    [][pc = "determine_deadlines"
        => LET last == calls'[Len(calls')]
               entries == IF last.kind = "gateway" /\ last.reply.ok
                          THEN last.reply.value ELSE <<>>
           IN  \A p \in 1..Len(state.action_items) :
                  IsISO(state.action_items[p].deadline)
                     => state'.action_items[p].deadline =
                           IF NamingEntries(entries, p) = {}
                           THEN state.action_items[p].deadline
                           ELSE entries[Last(NamingEntries(entries, p))].deadline]_vars

C19_Witness ==
    /\ pc = "send_emails"
    /\ Answered("gateway", "determine_deadlines")
    /\ Len(state.action_items) = 2
    /\ UpdateOf("assign_owners").action_items[1].deadline = "2025-02-12"
    /\ UpdateOf("assign_owners").action_items[2].deadline = "2025-02-12"
    /\ state.action_items[1].deadline = "2025-02-12"
    /\ state.action_items[2].deadline = "2025-06-06"

(***************************************************************************)
(* C20 (as claimed): with the meeting date 2025-06-02, a Monday,           *)
(* determine_deadlines leaves an item whose raw deadline is "by Friday"    *)
(* with 2025-06-06, "next week" with 2025-06-09, and no deadline with      *)
(* 2025-06-09. The code computes no date: the item gets the date the       *)
(* Gateway returned, or keeps its raw deadline when the call failed.       *)
(***************************************************************************)
June2 == [y |-> 2025, m |-> 6, d |-> 2]

ClaimedDates(dl) ==
    /\ phrase = "by Friday" => dl = "2025-06-06"
    /\ phrase = "next week" => dl = "2025-06-09"
    /\ phrase = None => dl = "2025-06-09"

C20_ResolvesFromJune2 ==
    (dpc = "done" /\ meetingDate = June2 /\ dstate.action_items # <<>>)
        => ClaimedDates(dstate.action_items[1].deadline)

(***************************************************************************)
(* C20 (amended): 2025-06-02 is a Monday, and whenever the Gateway's last   *)
(* entry for the item is a date the rules of DETERMINE_DEADLINES_PROMPT     *)
(* allow,                                                                  *)
(* determine_deadlines leaves the item with 2025-06-06 for "by Friday",    *)
(* 2025-06-09 for "next week" and 2025-06-09 for no deadline.              *)
(***************************************************************************)
RulesFollowed ==
    /\ dreply.ok
    /\ NamingEntries(dreply.value, 1) # {}
    /\ dreply.value[Last(NamingEntries(dreply.value, 1))].deadline
           \in PolicyDates(meetingDate, phrase)

C20_ResolvesFromJune2WhenRulesFollowed ==
    (dpc = "done" /\ meetingDate = June2 /\ RulesFollowed)
        => /\ Weekday(meetingDate) = 0
           /\ ClaimedDates(dstate.action_items[1].deadline)

C20_Witness ==
    /\ dpc = "done"
    /\ meetingDate = June2
    /\ phrase = "next week"
    /\ RulesFollowed
    /\ dstate.action_items[1].deadline = "2025-06-09"
    /\ dstate.errors = <<>>

(***************************************************************************)
(* C21: ask_stream classifies and searches before it returns, so before    *)
(* any fragment exists; every call of ask or ask_stream classifies once    *)
(* and searches at most once; and while fragments are pulled from the      *)
(* generator the prompt, the inputs (context included) and the label stay  *)
(* what ask_stream committed, the only call made being the answer call.    *)
(***************************************************************************)
CountCalls(cs, kind, stage) ==
    Cardinality({i \in 1..Len(cs) : cs[i].kind = kind /\ cs[i].stage = stage})

EntryCallsMade(a, b) ==
    (IF a.called THEN 1 ELSE 0) + (IF b.called THEN 1 ELSE 0)

C21_ClassifiedAndSearchedBeforeStreaming ==
    [][LET new == SubSeq(rcalls', Len(rcalls) + 1, Len(rcalls'))
           n == EntryCallsMade(askOut', streamOut')
       IN  /\ CountCalls(rcalls', "client", "classify") = n
           /\ CountCalls(rcalls', "gateway", "classify")
                 = IF stub.client.ok THEN n ELSE 0
           /\ CountCalls(rcalls', "retriever", "team")
                 + CountCalls(rcalls', "retriever", "meeting") <= n
           /\ (~streamOut.called /\ streamOut'.called)
                 => /\ emitted' = <<>>
                    /\ gen'.status \in {"none", "created"}
                    /\ \A i \in 1..Len(new) :
                          ~(new[i].kind = "gateway" /\ new[i].stage = "answer")
                    /\ gen'.status = "created"
                          => /\ CountCalls(new, "gateway", "classify") = 1
                             /\ gen'.arg = [prompt |-> streamOut'.prompt,
                                            inputs |-> streamOut'.inputs]
           /\ (gen' # gen /\ gen.status \in {"created", "running"})
                 => /\ streamOut' = streamOut
                    /\ gen'.arg = gen.arg
                    /\ \A i \in 1..Len(new) :
                          new[i].kind = "gateway" /\ new[i].stage = "answer"]_vars

C21_Witness ==
    /\ streamOut.called
    /\ ~askOut.called
    /\ streamOut.source = "Meeting History"
    /\ gen.status = "running"
    /\ emitted = <<"Ann ">>
    /\ CountCalls(rcalls, "retriever", "meeting") = 1
    /\ CountCalls(rcalls, "gateway", "classify") = 1

(***************************************************************************)
(* C22: the strategy is a fixed function of the category: team searches    *)
(* the team corpus once with k = 3 and is labelled "Team Directory",       *)
(* meeting searches the meeting corpus once with k = 3 and is labelled     *)
(* "Meeting History", general makes no Retriever call and is labelled      *)
(* "General Knowledge"; a label that is returned is one of these three.    *)
(***************************************************************************)
RetrieverCalls == SelectSeq(rcalls, LAMBDA c : c.kind = "retriever")

SourceLabels == {"Team Directory", "Meeting History", "General Knowledge"}

Dispatched(out) ==
    LET category == stub.classify.value.category
        search == [query |-> question, k |-> 3]
    IN  /\ category = "team"
            => /\ RetrieverCalls
                    = <<Call("retriever", "team", 0, search, stub.team)>>
               /\ ~out.raised => out.source = "Team Directory"
        /\ category = "meeting"
            => /\ RetrieverCalls
                    = <<Call("retriever", "meeting", 0, search, stub.meeting)>>
               /\ ~out.raised => out.source = "Meeting History"
        /\ category = "general"
            => /\ RetrieverCalls = <<>>
               /\ ~out.raised => out.source = "General Knowledge"
        /\ ~out.raised => out.source \in SourceLabels

C22_DispatchIsFunctionOfCategory ==
    (stub.client.ok /\ stub.classify.ok)
        => /\ (askOut.called /\ ~streamOut.called) => Dispatched(askOut)
           /\ (streamOut.called /\ ~askOut.called) => Dispatched(streamOut)

C22_Witness ==
    /\ askOut.called
    /\ ~streamOut.called
    /\ stub.classify.ok
    /\ stub.classify.value.category = "meeting"
    /\ Len(RetrieverCalls) = 1
    /\ RetrieverCalls[1].arg.k = 3
    /\ askOut.source = "Meeting History"
    /\ askOut.answer = "Ann leads QA."

(***************************************************************************)
(* C27: the reasoning text of a classification decides nothing: with the   *)
(* same category and any other reasoning, ask and ask_stream get the same  *)
(* prompt, the same inputs, the same Retriever call and the same label.    *)
(***************************************************************************)
WithReasoning(st, r) ==
    [st EXCEPT !.classify =
        Ok([category |-> st.classify.value.category, reasoning |-> r])]

Searches(made) == SelectSeq(made, LAMBDA c : c.kind = "retriever")

SameRoute(a, b) ==
    /\ a.ok = b.ok
    /\ a.prompt = b.prompt
    /\ a.inputs = b.inputs
    /\ a.source = b.source
    /\ Searches(a.made) = Searches(b.made)

C27_ReasoningDoesNotRoute ==
    (stub.client.ok /\ stub.classify.ok)
        => \A r \in Reasonings :
              LET other == WithReasoning(stub, r)
              IN  /\ SameRoute(AskResolve(question, history, stub),
                               AskResolve(question, history, other))
                  /\ SameRoute(AskStreamResolve(question, history, stub),
                               AskStreamResolve(question, history, other))
                  /\ askOut.called
                        => askOut.prompt = AskResolve(question, history, other).prompt
                  /\ (streamOut.called /\ ~streamOut.raised)
                        => streamOut.source
                              = AskStreamResolve(question, history, other).source

C27_Witness ==
    /\ stub.classify.ok
    /\ stub.classify.value = [category |-> "team", reasoning |-> "not sure"]
    /\ askOut.called
    /\ askOut.source = "Team Directory"
    /\ streamOut.called
    /\ streamOut.prompt = "TEAM_RAG_PROMPT"

(***************************************************************************)
(* C26. Intake accepts a transcript exactly when what remains of it after  *)
(* removing the whitespace before its first and after its last             *)
(* non-whitespace character is at least 20 characters long: an accepted    *)
(* transcript adds no error entry, a rejected one adds exactly one, and in *)
(* both cases only errors and processing_step change, processing_step      *)
(* becoming "intake".                                                      *)
(***************************************************************************)
InkPositions(t) ==
    {i \in 1..Len(t) :
        t[i] \notin {"\t", "\n", "", "\f", "\r", "", "", "", "", " ",
                     "", " "}}

TrimmedLen(t) ==
    IF InkPositions(t) = {} THEN 0
    ELSE LET first == CHOOSE i \in InkPositions(t) : \A j \in InkPositions(t) : i <= j
             last == CHOOSE i \in InkPositions(t) : \A j \in InkPositions(t) : j <= i
         IN last - first + 1

C26_IntakeAcceptsOnTrimmedLength ==
    [][pc = "intake" =>
        /\ TrimmedLen(state.transcript) >= 20 => state'.errors = state.errors
        /\ TrimmedLen(state.transcript) < 20 =>
               /\ Len(state'.errors) = Len(state.errors) + 1
               /\ IsPrefix(state.errors, state'.errors)
        /\ \A f \in DOMAIN state \ {"errors", "processing_step"} : state'[f] = state[f]
        /\ DOMAIN state' = DOMAIN state
        /\ state'.processing_step = "intake"]_vars

\* A transcript of 21 characters, 20 once trimmed, has been accepted.
C26_Witness ==
    /\ NodeNames(trace) = <<"intake">>
    /\ Len(state.transcript) = 21
    /\ TrimmedLen(state.transcript) = 20
    /\ state.errors = <<>>
    /\ state.processing_step = "intake"

(***************************************************************************)
(* C30. assign_owners returns as many items as it was given, in the same   *)
(* order; id, description, priority, deadline and context of every item    *)
(* are unchanged; and what happens to item p is decided by the Retriever   *)
(* and Gateway calls made for item p alone: the matched name and address   *)
(* when both succeeded, the item as it was otherwise, whatever the calls   *)
(* made for the other items returned.                                      *)
(***************************************************************************)
CallsForItem(made, p) == SelectSeq(made, LAMBDA c : c.item = p)

OwnOutcome(item, mine) ==
    IF Len(mine) = 2 /\ mine[1].reply.ok /\ mine[2].reply.ok
    THEN [item EXCEPT !.assignee = mine[2].reply.value.name,
                      !.assignee_email = mine[2].reply.value.email]
    ELSE item

C30_AssignOwnersItemwise ==
    [][(pc = "assign_owners" /\ pc' # "RAISED") =>
        LET before == state.action_items
            after == state'.action_items
            made == SubSeq(calls', Len(calls) + 1, Len(calls'))
        IN /\ Len(after) = Len(before)
           /\ \A p \in 1..Len(before) :
                  /\ \A f \in {"id", "description", "priority", "deadline", "context"} :
                         after[p][f] = before[p][f]
                  /\ DOMAIN after[p] = DOMAIN before[p]
                  /\ after[p] = OwnOutcome(before[p], CallsForItem(made, p))]_vars

\* The lookup for the first item failed and the second item was still matched.
C30_Witness ==
    /\ Ran("assign_owners")
    /\ state.processing_step = "assign_owners"
    /\ Len(state.action_items) = 2
    /\ \E i \in 1..Len(calls) :
           calls[i].stage = "assign_owners" /\ calls[i].item = 1 /\ ~calls[i].reply.ok
    /\ \E i \in 1..Len(calls) :
           /\ calls[i].stage = "assign_owners" /\ calls[i].item = 2
           /\ calls[i].kind = "gateway" /\ calls[i].reply.ok
           /\ state.action_items[2].assignee = calls[i].reply.value.name
           /\ state.action_items[2].assignee_email = calls[i].reply.value.email

(***************************************************************************)
(* C23. A consumer of process_transcript_stream may stop after any yielded *)
(* update. The state it has accumulated from the updates consumed so far   *)
(* has processing_step equal to the name of the last update, item ids      *)
(* ai-001, ai-002, ... that are the ids it held one update earlier, and an *)
(* errors list extending the one it held one update earlier (so a prefix   *)
(* of the errors of the whole run); and every external call made so far    *)
(* was made by a node whose update has been consumed.                      *)
(***************************************************************************)
Accumulated(tr) == Replay(InitialState(state.transcript, state.transcript_source), tr)

SequentialIds(items) ==
    \A p \in 1..Len(items) : items[p].id = "ai-00" \o DigitStr[p + 1]

C23_StopAfterAnyYield ==
    [][(mode' = "stream" /\ pc' # "RAISED") =>
        LET held == Accumulated(trace)
            seen == Accumulated(trace')
        IN /\ seen.processing_step = trace'[Len(trace')][1]
           /\ SequentialIds(seen.action_items)
           /\ held.action_items # <<>> =>
                  /\ Len(seen.action_items) = Len(held.action_items)
                  /\ \A p \in 1..Len(held.action_items) :
                         seen.action_items[p].id = held.action_items[p].id
           /\ IsPrefix(held.errors, seen.errors)
           /\ \A i \in 1..Len(calls') :
                  \E j \in 1..Len(trace') : trace'[j][1] = calls'[i].stage]_vars

\* The consumer holds the update of assign_owners: two items with their ids,
\* an error from an earlier stage, and no call by a later stage.
C23_Witness ==
    /\ mode = "stream"
    /\ pc = "determine_deadlines"
    /\ Len(trace) = 4
    /\ Len(Accumulated(trace).action_items) = 2
    /\ Accumulated(trace).errors # <<>>
    /\ Accumulated(trace).processing_step = "assign_owners"
    /\ \E i \in 1..Len(calls) : calls[i].stage = "assign_owners"
    /\ \A i \in 1..Len(calls) :
           calls[i].stage \notin {"determine_deadlines", "send_emails"}

(***************************************************************************)
(* C29. The dict run_with_progress returns after a whole run holds, under  *)
(* errors, every error entry of every node that ran: the errors of the     *)
(* state process_transcript returns for the same inputs. The code does not *)
(* do this: run_with_progress stores each update's errors list over the    *)
(* one it held, so only the entries of the last node that reported an      *)
(* error are left.                                                         *)
(***************************************************************************)
DictGet(d, k, default) == IF k \in DOMAIN d THEN d[k] ELSE default

C29_UiKeepsEveryError ==
    (mode = "stream" /\ pc = "END") => DictGet(final_state, "errors", <<>>) = state.errors

(***************************************************************************)
(* C28. In every pipeline state every action item's priority is HIGH,      *)
(* MEDIUM or LOW. The code does not ensure this: ActionItem.priority is a  *)
(* plain string with default MEDIUM, so a missing priority becomes MEDIUM  *)
(* but any other string the Gateway returns is stored as it is.            *)
(***************************************************************************)
Priorities == {"HIGH", "MEDIUM", "LOW"}

C28_PriorityInEnum ==
    \A p \in 1..Len(state.action_items) : state.action_items[p].priority \in Priorities

(***************************************************************************)
(* C24. After determine_deadlines succeeded, an action item that no entry  *)
(* of the Gateway's result names has the deadline it had before, raw       *)
(* phrase or None; an item named by an entry has the deadline of the last  *)
(* entry naming it; entries naming no item change nothing; and no other    *)
(* field of any item changes.                                              *)
(***************************************************************************)
ResolvedDeadline(item, entries, p) ==
    IF NamingEntries(entries, p) = {} THEN item.deadline
    ELSE entries[Last(NamingEntries(entries, p))].deadline

C24_UnnamedKeepNamedTakeLast ==
    [][(dpc = "call" /\ dreply'.ok) =>
        LET before == dstate.action_items
            after == dstate'.action_items
        IN /\ Len(after) = Len(before)
           /\ \A p \in 1..Len(before) :
                  after[p] = [before[p] EXCEPT
                                 !.deadline = ResolvedDeadline(before[p], dreply'.value, p)]]_vars

\* The first item is named twice with different dates and has the later one;
\* the second item is not named and keeps its deadline.
C24_Witness ==
    /\ dpc = "done"
    /\ dreply.ok
    /\ Len(dreply.value) = 2
    /\ NamingEntries(dreply.value, 1) = {1, 2}
    /\ dreply.value[1].deadline # dreply.value[2].deadline
    /\ phrase = "by Friday"
    /\ dstate.action_items[1].deadline = dreply.value[2].deadline
    /\ dstate.action_items[2].deadline = "2025-02-12"

(***************************************************************************)
(* C25. The meeting date is chosen by form, not by position: the date of   *)
(* the first line with a labeled date in the form Month D, YYYY if the     *)
(* transcript has one; else the date of the first line with a labeled date *)
(* in the form YYYY-MM-DD; else the first bare date in the form            *)
(* Month D, YYYY; else today's date in ISO form. So a labeled date wins    *)
(* over a bare date on an earlier line.                                    *)
(***************************************************************************)
LinesOfKind(kind) == {i \in 1..Len(lines) : lines[i].kind = kind}

First(S) == CHOOSE i \in S : \A j \in S : i <= j

DateOfLine(l) == Str(SubSeq(l.text, l.from, Len(l.text)))

ExpectedAnchor ==
    IF LinesOfKind("labeled_month") # {}
    THEN DateOfLine(lines[First(LinesOfKind("labeled_month"))])
    ELSE IF LinesOfKind("labeled_iso") # {}
    THEN DateOfLine(lines[First(LinesOfKind("labeled_iso"))])
    ELSE IF LinesOfKind("bare") # {}
    THEN DateOfLine(lines[First(LinesOfKind("bare"))])
    ELSE FormatISO(today)

C25_AnchorByPrecedence == apc = "done" => anchor = ExpectedAnchor

\* A bare date, then a labeled ISO date, then a labeled Month D, YYYY date:
\* the last one is returned.
C25_Witness ==
    /\ apc = "done"
    /\ Len(lines) = 3
    /\ lines[1].kind = "bare"
    /\ lines[2].kind = "labeled_iso"
    /\ lines[3].kind = "labeled_month"
    /\ anchor = "June 2, 2025"

(***************************************************************************)
(* C31. transcript and transcript_source are written once, by              *)
(* _initial_state, from the arguments of process_transcript or             *)
(* process_transcript_stream: no step of a run changes either, so every    *)
(* state of the run, the final one included, holds the values passed.      *)
(***************************************************************************)
C31_InputsNeverRewritten ==
    [][/\ state'.transcript = state.transcript
       /\ state'.transcript_source = state.transcript_source
       /\ \A i \in 1..Len(trace') :
              DOMAIN trace'[i][2] \cap {"transcript", "transcript_source"} = {}]_vars

\* A whole run on a pasted transcript that has whitespace around it: the
\* final state still holds it untrimmed.
C31_Witness ==
    /\ pc = "END"
    /\ Len(trace) = 6
    /\ state.transcript_source = "pasted"
    /\ Len(state.transcript) = 21
    /\ Head(state.transcript) = " "

(***************************************************************************)
(* C32. Once a node has run, processing_step is that node's name, whether  *)
(* the node succeeded or caught a failure; at the end of a run it is       *)
(* "extract_action_items" exactly when the sub-chain assign_owners ..      *)
(* send_emails was skipped and "send_emails" exactly when it ran.          *)
(***************************************************************************)
C32_StepNamesLastNode ==
    /\ trace # <<>> => state.processing_step = trace[Len(trace)][1]
    /\ trace = <<>> => state.processing_step = ""
    /\ pc = "END" =>
          /\ state.processing_step = "extract_action_items" <=> ~Ran("assign_owners")
          /\ state.processing_step = "send_emails" <=> Ran("assign_owners")

\* summarize has caught a Gateway failure and still reports its name.
C32_Witness ==
    /\ NodeNames(trace) = <<"intake", "summarize">>
    /\ Len(state.errors) = 1
    /\ state.summary = "Error generating summary."
    /\ state.processing_step = "summarize"

(***************************************************************************)
(* C34. determine_deadlines returns as many items as it was given, in the  *)
(* same order, and changes no field of any item other than deadline,       *)
(* whether the Gateway answered or failed; given an empty list it makes no *)
(* call at all and changes nothing in the state except processing_step.    *)
(***************************************************************************)
C34_DeadlinesFrame ==
    [][dpc = "call" =>
        LET before == dstate.action_items
            after == dstate'.action_items
        IN /\ Len(after) = Len(before)
           /\ \A p \in 1..Len(before) :
                  /\ DOMAIN after[p] = DOMAIN before[p]
                  /\ \A f \in DOMAIN before[p] \ {"deadline"} : after[p][f] = before[p][f]
           /\ before = <<>> =>
                  /\ dcalls' = <<>>
                  /\ dstate'.processing_step = "determine_deadlines"
                  /\ \A f \in DOMAIN dstate \ {"processing_step"} : dstate'[f] = dstate[f]]_vars

\* determine_deadlines has run on a state with no action items.
C34_Witness ==
    /\ dpc = "done"
    /\ dstate.action_items = <<>>
    /\ dcalls = <<>>
    /\ dstate.errors = <<>>
    /\ dstate.processing_step = "determine_deadlines"

(***************************************************************************)
(* C35. In a run that does not raise, errors holds what the nodes          *)
(* reported, in order, and nothing else: at most one entry each from       *)
(* intake, summarize, extract_action_items and determine_deadlines, none   *)
(* from assign_owners or send_emails even when the lookup for an item      *)
(* failed, so at most four entries; and a run never holds both an          *)
(* extraction failure and a deadline failure.                              *)
(***************************************************************************)
Reported(node) ==
    \E i \in 1..Len(trace) : trace[i][1] = node /\ "errors" \in DOMAIN trace[i][2]

C35_AtMostOneErrorPerReportingNode ==
    pc # "RAISED" =>
        /\ state.errors = ErrorsOf(trace)
        /\ \A i \in 1..Len(trace) :
               "errors" \in DOMAIN trace[i][2] =>
                   /\ Len(trace[i][2].errors) = 1
                   /\ trace[i][1] \in {"intake", "summarize", "extract_action_items",
                                       "determine_deadlines"}
        /\ Len(state.errors) <= 4
        /\ ~(Reported("extract_action_items") /\ Reported("determine_deadlines"))

\* A finished run in which intake, summarize and determine_deadlines each
\* reported once and the owner lookup of an item failed without a report.
C35_Witness ==
    /\ pc = "END"
    /\ Len(state.errors) = 3
    /\ Reported("intake") /\ Reported("summarize") /\ Reported("determine_deadlines")
    /\ \E i \in 1..Len(calls) :
           /\ calls[i].stage = "assign_owners" /\ calls[i].item > 0
           /\ ~calls[i].reply.ok

(***************************************************************************)
(* C36. At the end of a run emails_sent is a subsequence, in item order,   *)
(* of the addresses of the action items that have one: it is no longer     *)
(* than the number of such items, an address stands in it once for every   *)
(* item whose notification to it was sent (two items with one address give *)
(* it twice), and it is empty when the sub-chain was skipped.              *)
(***************************************************************************)
Addressed == {p \in 1..Len(state.action_items) :
                 state.action_items[p].assignee_email \notin {None, ""}}

Occurrences(seq, x) == Cardinality({k \in 1..Len(seq) : seq[k] = x})

C36_SentIsSubsequenceOfAddresses ==
    pc = "END" =>
        /\ \E at \in [1..Len(state.emails_sent) -> Addressed] :
               /\ \A j, k \in 1..Len(state.emails_sent) : j < k => at[j] < at[k]
               /\ \A k \in 1..Len(state.emails_sent) :
                      state.emails_sent[k] = state.action_items[at[k]].assignee_email
        /\ Len(state.emails_sent) <= Cardinality(Addressed)
        /\ \A p \in Addressed :
               Occurrences(state.emails_sent, state.action_items[p].assignee_email)
                   = Cardinality({i \in 1..Len(DispatchCalls) :
                                     /\ DispatchCalls[i].arg
                                            = state.action_items[p].assignee_email
                                     /\ DispatchCalls[i].reply.value = "sent"})
        /\ ~Ran("send_emails") => state.emails_sent = <<>>

\* Two items matched to the same person were both notified: the address is
\* in emails_sent twice.
C36_Witness ==
    /\ pc = "END"
    /\ Len(state.emails_sent) = 2
    /\ state.emails_sent[1] = state.emails_sent[2]
    /\ state.action_items[1].assignee_email = state.action_items[2].assignee_email

(***************************************************************************)
(* C37. An item whose owner lookup failed leaves assign_owners with the    *)
(* assignee_email extract_action_items gave it; so send_emails asks the    *)
(* dispatcher about such an item exactly when the extraction itself        *)
(* carried an address for it that is neither None nor empty.               *)
(***************************************************************************)
LookupFailed(p) ==
    \E i \in 1..Len(calls) :
        calls[i].stage = "assign_owners" /\ calls[i].item = p /\ ~calls[i].reply.ok

ExtractedEmail(p) == UpdateOf("extract_action_items").action_items[p].assignee_email

C37_FailedLookupKeepsExtractedEmail ==
    /\ Ran("assign_owners") =>
           \A p \in 1..Len(state.action_items) :
               LookupFailed(p) =>
                   /\ UpdateOf("assign_owners").action_items[p].assignee_email
                          = ExtractedEmail(p)
                   /\ state.action_items[p].assignee_email = ExtractedEmail(p)
    /\ Ran("send_emails") =>
           \A p \in 1..Len(state.action_items) :
               LookupFailed(p) =>
                   ((\E i \in 1..Len(DispatchCalls) : DispatchCalls[i].item = p)
                        <=> ExtractedEmail(p) \notin {None, ""})

\* The lookup for an item extracted with an address failed, and the
\* notification for it went to the extracted address.
C37_Witness ==
    /\ pc = "END"
    /\ LookupFailed(1)
    /\ ExtractedEmail(1) = "bob@x.com"
    /\ \E i \in 1..Len(DispatchCalls) :
           DispatchCalls[i].item = 1 /\ DispatchCalls[i].arg = "bob@x.com"
    /\ state.emails_sent = <<"bob@x.com">>

(***************************************************************************)
(* C33 (as claimed): in the chat loop the history changes only when an     *)
(* answer stream has been consumed to its end, and then grows by the       *)
(* question as a human message and the concatenated fragments as an        *)
(* assistant message; a failure leaves it as it was. The code changes it   *)
(* in one more place: the command /clear empties it.                      *)
(***************************************************************************)
StreamEnded ==
    /\ chat.pc = "streaming"
    /\ \A i \in (chat.pos + 1)..Len(chat.tokens.chunks) : chat.tokens.chunks[i] = ""

TurnAdded ==
    /\ StreamEnded
    /\ chat.tokens.error = ""
    /\ chat'.history =
           chat.history \o <<[role |-> "human", content |-> chat.user_input],
                             [role |-> "ai", content |-> Concat(chat.tokens.chunks)]>>

Alternating(h) ==
    /\ Len(h) % 2 = 0
    /\ \A i \in 1..Len(h) : h[i].role = IF i % 2 = 1 THEN "human" ELSE "ai"

C33_HistoryChangesOnlyAfterStream ==
    [][/\ chat'.history # chat.history => TurnAdded
       /\ (StreamEnded /\ chat.tokens.error = "") => TurnAdded
       /\ Alternating(chat'.history)]_vars

(***************************************************************************)
(* C33 (amended): the history changes only when an answer stream has been  *)
(* consumed to its end without raising - it then grows by the question as  *)
(* a human message and the concatenation of the fragments, in emission     *)
(* order, as an assistant message - or when the user types /clear, which   *)
(* empties it; when classification, retrieval or streaming raises it is    *)
(* left as it was. So it always has even length, human and assistant       *)
(* messages alternating.                                                   *)
(***************************************************************************)
Cleared ==
    /\ chat.pc = "prompt"
    /\ chat'.pc = "prompt"
    /\ chat'.user_input \in {"/clear", "/Clear", "/CLEAR"}
    /\ chat'.history = <<>>

C33_HistoryChangesAfterStreamOrClear ==
    [][/\ chat'.history # chat.history => (TurnAdded \/ Cleared)
       /\ (StreamEnded /\ chat.tokens.error = "") => TurnAdded
       /\ Alternating(chat'.history)]_vars

\* A question was answered in three chunks, one of them empty, and the
\* history holds the question and the whole answer.
C33_Witness ==
    /\ chat.pc = "prompt"
    /\ chat.history = <<[role |-> "human", content |-> "Who is the QA lead?"],
                        [role |-> "ai", content |-> "Ann leads QA."]>>
    /\ chat.reads = 1

(***************************************************************************)
(* C38. For every transcript file the demo script's call of                *)
(* process_transcript reaches the pipeline, and a row shows ERR only when  *)
(* the pipeline itself failed. The code does not do this: the call passes  *)
(* share=..., a keyword process_transcript does not declare, so every call *)
(* raises TypeError before the pipeline starts and every row shows ERR.    *)
(***************************************************************************)
C38_EveryFileReachesPipeline ==
    /\ demo.reached = Len(demo.rows)
    /\ \A k \in 1..Len(demo.rows) :
           demo.rows[k].actions = "ERR" => demo.rows[k].detail = "api_key must be set"

====
